---- MODULE Spec2Model ----
(***************************************************************************)
(* A model of the trade rate limiter of Oriath-Scales and of the request   *)
(* handlers that gate on it.  Four implementations of RateLimitService     *)
(* live in the repository; each is modelled by its own operators:          *)
(*   Svc : src/src/lib/server/services/trade/rate-limit.service.ts          *)
(*   P9  : src/unnamed/part_009                                            *)
(*   P8  : src/unnamed/part_008                                            *)
(*   RL  : src/src/lib/server/services/trade/rateLimit.ts                   *)
(* Time is Date.now() in milliseconds, counted from the construction of    *)
(* the service.  Header values are sequences of one-character strings, so  *)
(* that split, trim and parseInt are modelled by what they do.             *)
(* The stat catalog cache of the client has three implementations:         *)
(*   SU  : src/src/lib/utils/stat-utils.ts (class StatsManager)            *)
(*   STC : src/src/lib/utils/stats.ts, lines 35-357 (class StatsManager)   *)
(*   STM : src/src/lib/utils/stats.ts, lines 403-628 (module-level state)  *)
(***************************************************************************)
EXTENDS Integers, Sequences, FiniteSets, TLC

VARIABLES
    impl,         \* which RateLimitService the process runs
    now,          \* Date.now(), ms
    tiers,        \* state.tiers
    last,         \* the last limiter call and what it returned
    restrictEnd,  \* history: the end of the latest setRestriction, ms
    until,        \* history: per tier, the end of the restriction a header recorded
    calls,        \* history: checks made inside and after the first 10 s window
    denial,       \* history: the latest denied check, Null once the service was told otherwise
    periods,      \* history: the periods before the latest setRestriction, and its end
    twin,         \* the RateLimitService of rateLimit.ts run beside the one of tiers, or Null
    remote,       \* the upstream API's windows and the hit counts on its responses, or Null
    pc,           \* per request: where its POST handler is
    granted,      \* history: per tier, requests allowed since the tier was last synchronised
    base,         \* history: per tier, hits when the tier was last synchronised
    oneSlot,      \* history: per request, checked on a state with one free slot, unchanged since
    cache,        \* the catalog snapshot: cache / statsCache, or Null
    searchIndex,  \* the list the index over all stats was built from, or Null
    implicitIndex,\* the list the index over implicit stats was built from, or Null
    lastFetchAttempt, \* lastFetchAttempt / lastFetchTime, ms
    fetchPromise, \* Null, or the number of the fetch whose promise is stored
    fetches,      \* the requests sent to the stats endpoint, in order
    call,         \* what the latest fetchStats or clearStatsCache call returned
    statText,     \* the text handed to normalizeStatText or findStatId
    applied,      \* how many times normalizeStatText has been applied to it
    resolved,     \* what the latest findStatId call returned, and on which path
    itemText,     \* ItemChecker: the pasted text
    error,        \* ItemChecker: the message shown, "" for null
    loading,      \* ItemChecker: loading
    includeItemLevel, \* ItemChecker: includeItemLevel
    isStatsLoaded,    \* ItemChecker: isStatsLoaded
    searchPc,     \* where the running handleSearch is
    query,        \* the query handleSearch built, or Null
    statCalls,    \* the findStatId calls of the latest handleSearch, with their answers
    posts,        \* the bodies sent to /api/poe/search, in order
    parsedItem,   \* what the latest parseItemText call returned, or Null
    reply,        \* what the latest run of a route handler did and answered
    disk          \* static/cache/stats.json: Null, or the snapshot and when it was written

vars == <<impl, now, tiers, last, restrictEnd, until, calls, denial, periods, twin, remote, pc, granted, base, oneSlot,
          cache, searchIndex, implicitIndex, lastFetchAttempt, fetchPromise, fetches, call,
          statText, applied, resolved,
          itemText, error, loading, includeItemLevel, isStatsLoaded, searchPc, query,
          statCalls, posts, parsedItem, reply, disk>>

server == <<reply, disk>>

history == <<restrictEnd, until, calls, denial, periods, twin, remote>>

handlers == <<pc, granted, base, oneSlot>>

catalog == <<cache, searchIndex, implicitIndex, lastFetchAttempt, fetchPromise, fetches, call>>

limiter == <<tiers, last>>

lookup == <<statText, applied, resolved>>

component == <<itemText, error, loading, includeItemLevel, isStatsLoaded, searchPc, query,
               statCalls, posts, parsedItem>>

(***************************************************************************)
(* Bounds of the model.                                                    *)
(***************************************************************************)
MaxNow == 1500
MaxNowDefault == 11000
MaxRestrictionSeconds == 1
NumRequests == 3
MaxCalls == 8
MaxHeaderTuples == 12
MaxNowTiers == 1000
MaxNowPost == 1000

(***************************************************************************)
(* JavaScript string and number helpers.                                   *)
(***************************************************************************)
Absent == <<"absent">>

DigitVal ==
    [c \in {"0", "1", "2", "3", "4", "5", "6", "7", "8", "9"} |->
        CASE c = "0" -> 0 [] c = "1" -> 1 [] c = "2" -> 2 [] c = "3" -> 3
          [] c = "4" -> 4 [] c = "5" -> 5 [] c = "6" -> 6 [] c = "7" -> 7
          [] c = "8" -> 8 [] c = "9" -> 9]

IsDigit(c) == c \in DOMAIN DigitVal

IsSpace(c) == c = " "

RECURSIVE TrimStart(_)
TrimStart(s) ==
    IF s # <<>> /\ IsSpace(Head(s)) THEN TrimStart(Tail(s)) ELSE s

RECURSIVE TrimEnd(_)
TrimEnd(s) ==
    IF s # <<>> /\ IsSpace(s[Len(s)]) THEN TrimEnd(SubSeq(s, 1, Len(s) - 1)) ELSE s

trim(s) == TrimEnd(TrimStart(s))

\* String.prototype.split(sep): the pieces between the places of sep;
\* "".split(",") is [""]
split(s, sep) ==
    LET cuts == {i \in 1..Len(s) : s[i] = sep}
        n == Cardinality(cuts)
        cut(k) == CHOOSE i \in cuts : Cardinality({j \in cuts : j < i}) = k - 1
    IN [k \in 1..(n + 1) |->
           SubSeq(s, IF k = 1 THEN 1 ELSE cut(k - 1) + 1,
                     IF k = n + 1 THEN Len(s) ELSE cut(k) - 1)]

MapSeq(f(_), s) == [i \in 1..Len(s) |-> f(s[i])]

\* Array.prototype.filter(Boolean) on strings: drops the empty ones
FilterNonEmpty(s) == SelectSeq(s, LAMBDA x : x # <<>>)

RECURSIVE DigitsValue(_, _, _)
DigitsValue(s, acc, seen) ==
    IF s = <<>> \/ ~IsDigit(Head(s))
    THEN IF seen THEN <<acc>> ELSE <<>>
    ELSE DigitsValue(Tail(s), acc * 10 + DigitVal[Head(s)], TRUE)

\* parseInt(s, 10): <<n>> for a number, <<>> for NaN.  Leading white space,
\* a sign and the longest prefix of digits are read; the rest is ignored.
parseInt(s) ==
    LET t == TrimStart(s) IN
    IF t = <<>> THEN <<>>
    ELSE IF Head(t) = "-"
         THEN LET v == DigitsValue(Tail(t), 0, FALSE) IN
              IF v = <<>> THEN <<>> ELSE <<0 - v[1]>>
    ELSE IF Head(t) = "+" THEN DigitsValue(Tail(t), 0, FALSE)
    ELSE DigitsValue(t, 0, FALSE)

\* Math.ceil(x / d) for integers x and d > 0
Ceil(x, d) == 0 - ((0 - x) \div d)

Max2(a, b) == IF a >= b THEN a ELSE b

Min2(a, b) == IF a <= b THEN a ELSE b

MinOf(S) == CHOOSE x \in S : \A y \in S : x <= y

\* s[i] of a JavaScript array (i from 0): Absent stands for undefined
At(s, i) == IF i + 1 \in DOMAIN s THEN s[i + 1] ELSE Absent

(***************************************************************************)
(* Tiers.                                                                  *)
(***************************************************************************)
Tier(h, m, p, r, l) ==
    [hits |-> h, max |-> m, period |-> p, restrictedTime |-> r, lastUpdated |-> l]

\* createDefaultTiers of rate-limit.service.ts and of part_009 (periods in ms);
\* rate-limit.service.ts has no restrictedTime field, kept at 0 here
createDefaultTiers(t) ==
    << Tier(0, 5, 10000, 0, t), Tier(0, 15, 60000, 0, t), Tier(0, 30, 300000, 0, t) >>


(***************************************************************************)
(* Response headers.  A header value is a sequence of characters or        *)
(* Absent (headers.get returns null).  h.rules is X-Rate-Limit-Rules as    *)
(* its comma-separated, trimmed names; h.get[name] holds the values of     *)
(* X-Rate-Limit-<name> and X-Rate-Limit-<name>-State.                      *)
(***************************************************************************)
RuleNames == {"ip", "account"}

HeaderPair(rule, state) == [rule |-> rule, state |-> state]

Headers(rules, ip, account) ==
    [rules |-> rules, get |-> [nm \in RuleNames |-> IF nm = "ip" THEN ip ELSE account]]

NoHeaders == Headers(Absent, HeaderPair(Absent, Absent), HeaderPair(Absent, Absent))

(***************************************************************************)
(* RateLimitService of rate-limit.service.ts (Svc).                        *)
(***************************************************************************)
parseIntSafely_svc(value) ==
    IF value = Absent \/ value = <<>> THEN <<>> ELSE parseInt(trim(value))

\* updateTier_svc resetting only once the window is more than over
updateTier_svc_strict(t, n) ==
    IF n - t.lastUpdated > t.period
    THEN [t EXCEPT !.hits = 0, !.lastUpdated = n]
    ELSE t

updateTier_svc(t, n) ==
    IF n - t.lastUpdated >= t.period
    THEN [t EXCEPT !.hits = 0, !.lastUpdated = n]
    ELSE t

updateAllTiers_svc(ts, n) == [i \in DOMAIN ts |-> updateTier_svc(ts[i], n)]

\* getStatus: what it does to the tiers (the string it builds is not modelled)
getStatus_svc(ts, n) == updateAllTiers_svc(ts, n)

\* checkAndIncrementLimit_svc counting the request before it looks for an
\* exceeded tier, so that a denied request is counted too
checkAndIncrementLimit_svc_eager(ts, n) ==
    LET u == updateAllTiers_svc(ts, n)
        exceeded == {i \in DOMAIN u : u[i].hits >= u[i].max}
        waits == {Ceil(u[i].period - (n - u[i].lastUpdated), 1000) : i \in exceeded}
        inc == [i \in DOMAIN u |->
                   IF i \in exceeded THEN u[i] ELSE [u[i] EXCEPT !.hits = @ + 1]]
    IN  IF waits # {}
        THEN [tiers |-> inc, allowed |-> FALSE, timeToWait |-> MinOf(waits)]
        ELSE [tiers |-> inc, allowed |-> TRUE, timeToWait |-> 0]

\* checkAndIncrementLimit_svc counting no hit for the request it allows, as
\* if the increment were left to a later step
checkAndIncrementLimit_svc_uncounted(ts, n) ==
    LET u == updateAllTiers_svc(ts, n)
        exceeded == {i \in DOMAIN u : u[i].hits >= u[i].max}
        waits == {Ceil(u[i].period - (n - u[i].lastUpdated), 1000) : i \in exceeded}
    IN  IF waits # {}
        THEN [tiers |-> u, allowed |-> FALSE, timeToWait |-> MinOf(waits)]
        ELSE [tiers |-> u, allowed |-> TRUE, timeToWait |-> 0]

checkAndIncrementLimit_svc(ts, n) ==
    LET u == updateAllTiers_svc(ts, n)
        exceeded == {i \in DOMAIN u : u[i].hits >= u[i].max}
        waits == {Ceil(u[i].period - (n - u[i].lastUpdated), 1000) : i \in exceeded}
    IN  IF waits # {}
        THEN [tiers |-> u, allowed |-> FALSE, timeToWait |-> MinOf(waits)]
        ELSE [tiers |-> [i \in DOMAIN u |-> [u[i] EXCEPT !.hits = @ + 1]],
              allowed |-> TRUE, timeToWait |-> 0]

\* what updateFromHeaders reads from the state header: <<>> when the header
\* is missing or empty, else <<tuples>>, one entry per comma-separated position:
\* <<hits, periodSeconds>> when the reduce callback accepts it, <<>> when not
parseStateTuple_svc(state) ==
    LET parts == split(state, ":")
        hits == parseIntSafely_svc(At(parts, 0))
        periodSeconds == parseIntSafely_svc(At(parts, 1))
    IN  IF hits # <<>> /\ periodSeconds # <<>> /\ hits[1] >= 0 /\ periodSeconds[1] > 0
        THEN <<hits[1], periodSeconds[1]>>
        ELSE <<>>

parseStateHeader_svc(h) ==
    LET stateHeader == h.get["ip"].state IN
    IF stateHeader = Absent \/ stateHeader = <<>> THEN <<>>
    ELSE <<MapSeq(parseStateTuple_svc, MapSeq(trim, split(stateHeader, ",")))>>

\* applyState_svc without the Math.min clamp of hits
applyState_svc_unclamped(t, parsed, n) ==
    IF parsed # <<>>
    THEN [t EXCEPT !.hits = parsed[1],
                   !.period = parsed[2] * 1000,
                   !.lastUpdated = n]
    ELSE t

\* the assignments of the reduce callback to tier i, for its parsed tuple
applyState_svc(t, parsed, n) ==
    IF parsed # <<>>
    THEN [t EXCEPT !.hits = Min2(parsed[1], t.max),
                   !.period = parsed[2] * 1000,
                   !.lastUpdated = n]
    ELSE t

\* updateFromHeaders, given what parseStateHeader_svc read
updateFromHeaders_svc(ts, n, parsed) ==
    IF parsed = <<>>
    THEN getStatus_svc(ts, n)
    ELSE LET states == parsed[1]
             upd == [i \in DOMAIN ts |->
                        IF i <= Len(states) THEN applyState_svc(ts[i], states[i], n)
                        ELSE ts[i]]
         IN  getStatus_svc(upd, n)

setRestriction_svc(ts, n, seconds) ==
    [i \in DOMAIN ts |->
        [ts[i] EXCEPT !.hits = ts[i].max,
                      !.lastUpdated = n,
                      !.period = Max2(ts[i].period, seconds * 1000)]]

(***************************************************************************)
(* RateLimitService of part_009 (P9).                                      *)
(***************************************************************************)
MAX_TIERS == 10

parseIntSafely_p9(value) ==
    IF value = Absent THEN <<>> ELSE parseInt(trim(value))

calculateTimeLeft_p9(t, n) == Max2(0, t.period - (n - t.lastUpdated))

\* the lazy reset that getStatus and checkAndIncrementLimit apply to each tier
refreshTier_p9(t, n) ==
    LET a == IF n - t.lastUpdated >= t.period
             THEN [t EXCEPT !.hits = 0, !.lastUpdated = n]
             ELSE t
    IN  IF a.restrictedTime > 0 /\ a.restrictedTime <= n
        THEN [a EXCEPT !.restrictedTime = 0]
        ELSE a

getStatus_p9(ts, n) == [i \in DOMAIN ts |-> refreshTier_p9(ts[i], n)]

\* the wait one tier adds to shortestWaitTime: <<>> when it does not block
tierWait_p9(t, n) ==
    IF t.restrictedTime > n THEN <<Ceil(t.restrictedTime - n, 1000)>>
    ELSE IF t.hits >= t.max THEN <<Ceil(calculateTimeLeft_p9(t, n), 1000)>>
    ELSE <<>>

\* checkAndIncrementLimit_p9 keeping the longest wait instead of the shortest
checkAndIncrementLimit_p9_longest(ts, n) ==
    LET u == [i \in DOMAIN ts |-> refreshTier_p9(ts[i], n)]
        waits == {tierWait_p9(u[i], n)[1] :
                     i \in {j \in DOMAIN u : tierWait_p9(u[j], n) # <<>>}}
    IN  IF waits # {}
        THEN [tiers |-> u, allowed |-> FALSE,
              timeToWait |-> CHOOSE x \in waits : \A y \in waits : x >= y]
        ELSE [tiers |-> [i \in DOMAIN u |-> [u[i] EXCEPT !.hits = @ + 1]],
              allowed |-> TRUE, timeToWait |-> 0]

checkAndIncrementLimit_p9(ts, n) ==
    LET u == [i \in DOMAIN ts |-> refreshTier_p9(ts[i], n)]
        waits == {tierWait_p9(u[i], n)[1] :
                     i \in {j \in DOMAIN u : tierWait_p9(u[j], n) # <<>>}}
    IN  IF waits # {}
        THEN [tiers |-> u, allowed |-> FALSE, timeToWait |-> MinOf(waits)]
        ELSE [tiers |-> [i \in DOMAIN u |-> [u[i] EXCEPT !.hits = @ + 1]],
              allowed |-> TRUE, timeToWait |-> 0]

setRestriction_p9(ts, n, durationSeconds) ==
    LET restrictedUntil == n + Max2(0, durationSeconds) * 1000 IN
    [i \in DOMAIN ts |->
        [ts[i] EXCEPT !.restrictedTime = Max2(ts[i].restrictedTime, restrictedUntil)]]

\* what one pass of the for loop of tryUpdateTiersFromHeaders reads at index i:
\* <<>> when the pass ends in continue, else <<hits, max, periodSeconds,
\* activeRestrictionSeconds>>
parseTuple_p9(rule, state) ==
    IF rule = Absent \/ state = Absent THEN <<>>
    ELSE
    LET ruleParts == MapSeq(trim, split(rule, ":"))
        stateParts == MapSeq(trim, split(state, ":"))
    IN
    IF ~(Len(ruleParts) >= 3 /\ Len(stateParts) >= 3) THEN <<>>
    ELSE
    LET max == parseIntSafely_p9(ruleParts[1])
        periodSeconds == parseIntSafely_p9(ruleParts[2])
        restrictionSeconds == parseIntSafely_p9(ruleParts[3])
        hits == parseIntSafely_p9(stateParts[1])
        currentPeriodSeconds == parseIntSafely_p9(stateParts[2])
        activeRestrictionSeconds == parseIntSafely_p9(stateParts[3])
    IN
    IF <<>> \in {max, periodSeconds, restrictionSeconds, hits,
                 currentPeriodSeconds, activeRestrictionSeconds}
    THEN <<>>
    ELSE IF ~(max[1] >= 0 /\ periodSeconds[1] > 0 /\ restrictionSeconds[1] >= 0
              /\ hits[1] >= 0 /\ currentPeriodSeconds[1] >= 0
              /\ activeRestrictionSeconds[1] >= 0)
    THEN <<>>
    ELSE <<hits[1], max[1], periodSeconds[1], activeRestrictionSeconds[1]>>

\* the rule and state lists of tryUpdateTiersFromHeaders, parsed index by index
parseTuples_p9(ruleHeader, stateHeader) ==
    LET rules == FilterNonEmpty(MapSeq(trim, split(ruleHeader, ",")))
        states == FilterNonEmpty(MapSeq(trim, split(stateHeader, ",")))
    IN  [i \in 1..Max2(Len(rules), Len(states)) |->
            parseTuple_p9(At(rules, i - 1), At(states, i - 1))]

\* what updateFromHeaders reads: for each rule of rulesToCheck in turn, <<>>
\* when one of its two headers is missing, else <<its parsed tuples>>
parseHeaders_p9(h) ==
    LET rulesToCheck == IF h.rules # Absent /\ h.rules # <<>>
                        THEN SelectSeq(h.rules, LAMBDA nm : nm # "")
                        ELSE <<"ip">>
    IN  [k \in 1..Len(rulesToCheck) |->
            LET p == h.get[rulesToCheck[k]] IN
            IF p.rule = Absent \/ p.state = Absent THEN <<>>
            ELSE <<parseTuples_p9(p.rule, p.state)>>]

\* the tier a parsed tuple describes
tierFromTuple_p9(tu, n) ==
    Tier(Min2(tu[1], tu[2]), tu[2], tu[3] * 1000,
         IF tu[4] > 0 THEN n + tu[4] * 1000 ELSE 0, n)

\* the for loop of tryUpdateTiersFromHeaders from index i (from 0) on
RECURSIVE updateLoop_p9(_, _, _, _, _)
updateLoop_p9(ts, n, tuples, i, tiersUpdated) ==
    IF i >= Len(tuples)
    THEN [tiers |-> ts, tiersUpdated |-> tiersUpdated]
    ELSE IF tuples[i + 1] = <<>>
    THEN updateLoop_p9(ts, n, tuples, i + 1, tiersUpdated)
    ELSE IF i < Len(ts)
    THEN updateLoop_p9([ts EXCEPT ![i + 1] = tierFromTuple_p9(tuples[i + 1], n)],
                       n, tuples, i + 1, tiersUpdated + 1)
    ELSE IF Len(ts) < MAX_TIERS
    THEN updateLoop_p9(Append(ts, tierFromTuple_p9(tuples[i + 1], n)),
                       n, tuples, i + 1, tiersUpdated + 1)
    ELSE [tiers |-> ts, tiersUpdated |-> tiersUpdated]

tryUpdateTiersFromHeaders_p9(ts, n, tuples) ==
    LET r == updateLoop_p9(ts, n, tuples, 0, 0)
    IN  [tiers |-> r.tiers, success |-> r.tiersUpdated > 0]

\* the loop of updateFromHeaders over rulesToCheck
RECURSIVE rulesLoop_p9(_, _, _)
rulesLoop_p9(ts, n, parsed) ==
    IF parsed = <<>> THEN ts
    ELSE IF Head(parsed) = <<>> THEN rulesLoop_p9(ts, n, Tail(parsed))
    ELSE LET r == tryUpdateTiersFromHeaders_p9(ts, n, Head(parsed)[1]) IN
         IF r.success THEN r.tiers
         ELSE rulesLoop_p9(r.tiers, n, Tail(parsed))

\* updateFromHeaders, given what parseHeaders_p9 read
updateFromHeaders_p9(ts, n, parsed) ==
    getStatus_p9(rulesLoop_p9(ts, n, parsed), n)

(***************************************************************************)
(* RateLimitService of part_008 (P8): what updateFromHeaders does.         *)
(***************************************************************************)
safeParseInt_p8(value) ==
    IF value = Absent \/ value = <<>> THEN <<>> ELSE parseInt(trim(value))

resetTierIfExpired_p8(t, n) ==
    LET a == IF n - t.lastUpdated >= t.period
             THEN [t EXCEPT !.hits = 0, !.lastUpdated = n]
             ELSE t
    IN  IF ~(a.restrictedTime > n) /\ a.restrictedTime > 0
        THEN [a EXCEPT !.restrictedTime = 0]
        ELSE a

getStatus_p8(ts, n) == [i \in DOMAIN ts |-> resetTierIfExpired_p8(ts[i], n)]

\* what updateSingleTier reads from one rule and its state: <<>> when it
\* returns early, else <<hits, max, periodSeconds, restrictedTimeSeconds>>
parseTuple_p8(rule, state) ==
    IF rule = <<>> \/ state = Absent \/ state = <<>> THEN <<>>
    ELSE
    LET ruleParts == split(trim(rule), ":")
        stateParts == split(trim(state), ":")
    IN
    IF ~(Len(ruleParts) >= 3 /\ Len(stateParts) >= 3) THEN <<>>
    ELSE
    LET max == safeParseInt_p8(ruleParts[1])
        periodSeconds == safeParseInt_p8(ruleParts[2])
        hits == safeParseInt_p8(stateParts[1])
        restrictedTimeSeconds == safeParseInt_p8(stateParts[3])
    IN
    IF <<>> \in {max, periodSeconds, hits, restrictedTimeSeconds} THEN <<>>
    ELSE IF max[1] < 0 \/ periodSeconds[1] < 0 \/ hits[1] < 0 \/ restrictedTimeSeconds[1] < 0
    THEN <<>>
    ELSE <<hits[1], max[1], periodSeconds[1], restrictedTimeSeconds[1]>>

\* updateTiersFromHeaders: one entry per rule of the rule header
parseTuples_p8(ruleHeader, stateHeader) ==
    LET rules == split(ruleHeader, ",")
        states == split(stateHeader, ",")
    IN  [i \in 1..Len(rules) |-> parseTuple_p8(rules[i], At(states, i - 1))]

\* parseRulesFromHeaders and tryUpdateFromRule: for each rule name in turn,
\* <<>> when one of its two headers is missing or empty, else <<its tuples>>
parseHeaders_p8(h) ==
    LET names == IF h.rules # Absent
                 THEN SelectSeq(h.rules, LAMBDA nm : nm # "")
                 ELSE <<"ip">>
    IN  [k \in 1..Len(names) |->
            LET p == h.get[names[k]] IN
            IF p.rule \in {Absent, <<>>} \/ p.state \in {Absent, <<>>} THEN <<>>
            ELSE <<parseTuples_p8(p.rule, p.state)>>]

tierFromTuple_p8(tu, n) ==
    Tier(tu[1], tu[2], tu[3] * 1000, IF tu[4] > 0 THEN n + tu[4] * 1000 ELSE 0, n)

\* updateSingleTier_p8 appending without looking at MAX_TIERS
updateSingleTier_p8_uncapped(ts, n, tu, i) ==
    IF tu = <<>> THEN ts
    ELSE IF i < Len(ts) THEN [ts EXCEPT ![i + 1] = tierFromTuple_p8(tu, n)]
    ELSE Append(ts, tierFromTuple_p8(tu, n))

\* updateSingleTier past its parsing, for the tuple at index i (from 0)
updateSingleTier_p8(ts, n, tu, i) ==
    IF tu = <<>> THEN ts
    ELSE IF i < Len(ts) THEN [ts EXCEPT ![i + 1] = tierFromTuple_p8(tu, n)]
    ELSE IF Len(ts) < MAX_TIERS THEN Append(ts, tierFromTuple_p8(tu, n))
    ELSE ts

\* the forEach of updateTiersFromHeaders from index i (from 0) on
RECURSIVE updateTiersFromHeaders_p8(_, _, _, _)
updateTiersFromHeaders_p8(ts, n, tuples, i) ==
    IF i >= Len(tuples) THEN ts
    ELSE updateTiersFromHeaders_p8(updateSingleTier_p8(ts, n, tuples[i + 1], i),
                                   n, tuples, i + 1)

\* updateFromHeaders, given what parseHeaders_p8 read: the first rule with
\* both headers is applied, then getStatus runs
RECURSIVE rulesLoop_p8(_, _, _)
rulesLoop_p8(ts, n, parsed) ==
    IF parsed = <<>> THEN ts
    ELSE IF Head(parsed) = <<>> THEN rulesLoop_p8(ts, n, Tail(parsed))
    ELSE updateTiersFromHeaders_p8(ts, n, Head(parsed)[1], 0)

updateFromHeaders_p8(ts, n, parsed) ==
    getStatus_p8(rulesLoop_p8(ts, n, parsed), n)

\* getRetryAfterFromHeaders of rate-limit.service.ts, given the value of the
\* Retry-After header: <<n>>, or <<>> for undefined
getRetryAfterFromHeaders_svc(value) ==
    LET retryAfter == parseIntSafely_svc(value) IN
    IF retryAfter # <<>> /\ retryAfter[1] # 0 /\ retryAfter[1] >= 0 THEN retryAfter ELSE <<>>

(***************************************************************************)
(* RateLimitService of rateLimit.ts (RL).  Its period and restrictedTime   *)
(* are seconds, restrictedTime being the seconds still to wait; both are   *)
(* kept here in milliseconds, so that the fractions of (now - lastUpdated) *)
(* / 1000 stay integers.                                                   *)
(***************************************************************************)
NaN == "NaN"

createDefaultTiers_rl(t) ==
    << Tier(0, 5, 10 * 1000, 0, t), Tier(0, 15, 60 * 1000, 0, t), Tier(0, 30, 300 * 1000, 0, t) >>

calculateTimeLeft_rl(t, n) == Max2(0, Ceil(t.period - (n - t.lastUpdated), 1000))

resetTierIfExpired_rl(t, n) ==
    LET timeSinceUpdate == n - t.lastUpdated
        a == IF timeSinceUpdate >= t.period
             THEN [t EXCEPT !.hits = 0, !.lastUpdated = n]
             ELSE t
    IN  IF a.restrictedTime > 0
        THEN [a EXCEPT !.restrictedTime = Max2(0, a.restrictedTime - timeSinceUpdate)]
        ELSE a

resetAllExpiredTiers_rl(ts, n) == [i \in DOMAIN ts |-> resetTierIfExpired_rl(ts[i], n)]

getStatus_rl(ts, n) == resetAllExpiredTiers_rl(ts, n)

checkLimit_rl(ts, n) ==
    LET u == resetAllExpiredTiers_rl(ts, n)
        blocking == {i \in DOMAIN u : u[i].restrictedTime > 0 \/ u[i].hits >= u[i].max}
    IN  IF blocking = {}
        THEN [tiers |-> u, allowed |-> TRUE, timeToWait |-> 0]
        ELSE LET t == u[MinOf(blocking)] IN
             [tiers |-> u, allowed |-> FALSE,
              timeToWait |-> IF t.restrictedTime > 0 THEN Ceil(t.restrictedTime, 1000)
                             ELSE calculateTimeLeft_rl(t, n)]

incrementLimits_rl(ts, n) ==
    [i \in DOMAIN ts |-> [ts[i] EXCEPT !.hits = @ + 1, !.lastUpdated = n]]

\* parseInt(part || '0')
parseField_rl(part) ==
    LET v == parseInt(IF part = <<>> THEN <<"0">> ELSE part) IN
    IF v = <<>> THEN NaN ELSE v[1]

\* what updateSingleTier reads from one rule and its state: <<>> when the
\* tier is left alone, else <<hits, max, period, restrictedTime>> (seconds)
parseTuple_rl(rule, state) ==
    IF rule = <<>> \/ state = Absent \/ state = <<>> THEN <<>>
    ELSE
    LET ruleParts == split(trim(rule), ":")
        stateParts == split(trim(state), ":")
    IN
    IF ~(Len(ruleParts) >= 3 /\ Len(stateParts) >= 3) THEN <<>>
    ELSE << parseField_rl(stateParts[1]), parseField_rl(ruleParts[1]),
            parseField_rl(ruleParts[2]), parseField_rl(stateParts[3]) >>

parseTuples_rl(ruleHeader, stateHeader) ==
    LET rules == split(ruleHeader, ",")
        states == split(stateHeader, ",")
    IN  [i \in 1..Len(rules) |-> parseTuple_rl(rules[i], At(states, i - 1))]

\* parseRulesFromHeaders and tryUpdateFromRule: for each rule name in turn,
\* <<>> when one of its two headers is missing or empty, else <<its tuples>>
parseHeaders_rl(h) ==
    LET names == IF h.rules # Absent THEN h.rules ELSE <<"ip">>
    IN  [k \in 1..Len(names) |->
            IF names[k] \notin RuleNames THEN <<>>
            ELSE LET p == h.get[names[k]] IN
                 IF p.rule \in {Absent, <<>>} \/ p.state \in {Absent, <<>>} THEN <<>>
                 ELSE <<parseTuples_rl(p.rule, p.state)>>]

\* updateExistingTier and addNewTier
tierFromTuple_rl(tu, n) == Tier(tu[1], tu[2], tu[3] * 1000, tu[4] * 1000, n)

RECURSIVE updateTiersFromHeaders_rl(_, _, _, _)
updateTiersFromHeaders_rl(ts, n, tuples, i) ==
    IF i >= Len(tuples) THEN ts
    ELSE IF tuples[i + 1] = <<>>
    THEN updateTiersFromHeaders_rl(ts, n, tuples, i + 1)
    ELSE IF i < Len(ts)
    THEN updateTiersFromHeaders_rl([ts EXCEPT ![i + 1] = tierFromTuple_rl(tuples[i + 1], n)],
                                   n, tuples, i + 1)
    ELSE updateTiersFromHeaders_rl(Append(ts, tierFromTuple_rl(tuples[i + 1], n)),
                                   n, tuples, i + 1)

\* the tuples updateFromHeaders applies: those of the first rule with both headers
appliedTuples_rl(parsed) ==
    LET found == SelectSeq(parsed, LAMBDA e : e # <<>>) IN
    IF found = <<>> THEN <<>> ELSE found[1][1]

\* updateFromHeaders, given what parseHeaders_rl read
updateFromHeaders_rl(ts, n, parsed) ==
    getStatus_rl(updateTiersFromHeaders_rl(ts, n, appliedTuples_rl(parsed), 0), n)

(***************************************************************************)
(* What upstream sends: numbers written in decimal, tuples joined by ':'   *)
(* and ','.                                                                *)
(***************************************************************************)
DigitChar == <<"0", "1", "2", "3", "4", "5", "6", "7", "8", "9">>

RECURSIVE NumStr(_)
NumStr(k) ==
    IF k < 10 THEN <<DigitChar[k + 1]>>
    ELSE NumStr(k \div 10) \o <<DigitChar[(k % 10) + 1]>>

Tuple3(a, b, c) == NumStr(a) \o <<":">> \o NumStr(b) \o <<":">> \o NumStr(c)

RECURSIVE JoinComma(_)
JoinComma(ss) ==
    IF ss = <<>> THEN <<>>
    ELSE IF Len(ss) = 1 THEN ss[1]
    ELSE ss[1] \o <<",">> \o JoinComma(Tail(ss))

IpHeaders(ruleTuples, stateTuples) ==
    Headers(<<"ip">>, HeaderPair(JoinComma(ruleTuples), JoinComma(stateTuples)),
            HeaderPair(Absent, Absent))

\* a response's headers as an input of the model: the tuples its ip headers
\* were joined from, the headers, and what each service reads from them
HeaderInput(ruleTuples, stateTuples, h) ==
    [ruleTuples |-> ruleTuples, stateTuples |-> stateTuples, raw |-> h,
     svc |-> parseStateHeader_svc(h), p9 |-> parseHeaders_p9(h),
     p8 |-> parseHeaders_p8(h), rl |-> parseHeaders_rl(h)]

IpInput(ruleTuples, stateTuples) ==
    HeaderInput(ruleTuples, stateTuples, IpHeaders(ruleTuples, stateTuples))

\* rule tuples max:period:restriction and state tuples hits:period:restricted
BaseRules == <<Tuple3(2, 1, 60), Tuple3(3, 10, 60), Tuple3(4, 10, 60)>>

BaseStateValues == << <<1, 1, 0>>, <<1, 10, 0>>, <<1, 10, 0>> >>

BaseStates ==
    [i \in 1..3 |->
        Tuple3(BaseStateValues[i][1], BaseStateValues[i][2], BaseStateValues[i][3])]

\* tuples a position of the state header may hold instead: another count, an
\* active restriction, and malformed ones (empty, non-numeric, a field
\* missing, negative)
GoodVariants == { Tuple3(9, 1, 0), Tuple3(1, 1, 1) }

MalformedStates ==
    { <<>>, <<"x", ":", "1", ":", "0">>, <<"1">>, <<"-", "1", ":", "1", ":", "0">> }

MalformedRules == { <<>>, <<"x", ":", "1", ":", "6", "0">> }

LimiterInputs ==
    {HeaderInput(<<>>, <<>>, NoHeaders)}
    \cup {IpInput(BaseRules, BaseStates)}
    \cup {IpInput(BaseRules, [BaseStates EXCEPT ![2] = v]) :
            v \in GoodVariants \cup MalformedStates}
    \cup {IpInput(BaseRules, [BaseStates EXCEPT ![1] = Tuple3(9, 1, 0)])}
    \cup {IpInput(BaseRules, [BaseStates EXCEPT ![3] = v]) : v \in {<<>>, <<"1">>}}
    \cup {IpInput([BaseRules EXCEPT ![2] = w], BaseStates) : w \in MalformedRules}
    \cup {HeaderInput(BaseRules, BaseStates,
            Headers(<<"account", "ip">>,
                    HeaderPair(JoinComma(BaseRules), JoinComma(BaseStates)),
                    HeaderPair(JoinComma(BaseRules), <<"x">>)))}

TimeSteps == {500}

(***************************************************************************)
(* The limiter's operations as actions, on whichever service impl names.   *)
(***************************************************************************)
Requests == 1..NumRequests

Result(op, allowed, timeToWait, arg) ==
    [op |-> op, allowed |-> allowed, timeToWait |-> timeToWait, arg |-> arg]

CheckOf(ts, n) ==
    IF impl = "Svc" THEN checkAndIncrementLimit_svc(ts, n)
    ELSE checkAndIncrementLimit_p9(ts, n)

HeadersOf(ts, n, x) ==
    IF impl = "Svc" THEN updateFromHeaders_svc(ts, n, x.svc)
    ELSE IF impl = "P9" THEN updateFromHeaders_p9(ts, n, x.p9)
    ELSE updateFromHeaders_p8(ts, n, x.p8)

RestrictOf(ts, n, seconds) ==
    IF impl = "Svc" THEN setRestriction_svc(ts, n, seconds)
    ELSE setRestriction_p9(ts, n, seconds)

StatusOf(ts, n) ==
    IF impl = "Svc" THEN getStatus_svc(ts, n)
    ELSE IF impl = "P9" THEN getStatus_p9(ts, n)
    ELSE getStatus_p8(ts, n)

\* null is the empty sequence, a value v that may be null is <<v>>
Null == <<>>

NoPromise == 0

\* what a call returned: a promise (the number of its request), a list, or
\* an error thrown; nth counts the calls in a row that returned the same
CallResult(op, kind, promise, list, message, nth) ==
    [op |-> op, kind |-> kind, promise |-> promise, list |-> list, error |-> message,
     nth |-> nth]

\* stat-utils.ts, lines 52-54; stats.ts, lines 36-40 and 404-407
Found(id, path) == [id |-> id, path |-> path]

\* ItemChecker.svelte, lines 11-16: the component before anything was pasted
\* what a route handler did for a request and answered: the status and
\* the retryAfter field of its response (Null when it has none), the data it
\* answered with, whether it called the upstream API, the status of the
\* upstream response (Null when there was none), whether it called
\* updateFromHeaders and setRestriction, and whether it threw instead
Reply(status, retryAfter, data, forwarded, upstream, reconciled, restricted, thrown) ==
    [status |-> status, retryAfter |-> retryAfter, data |-> data,
     forwarded |-> forwarded, upstream |-> upstream, reconciled |-> reconciled,
     restricted |-> restricted, thrown |-> thrown]

NoReply == Reply(0, Null, Null, FALSE, Null, FALSE, FALSE, FALSE)

InitServer ==
    /\ reply = NoReply
    /\ disk = Null

InitComponent ==
    /\ itemText = <<>>
    /\ error = ""
    /\ loading = FALSE
    /\ includeItemLevel = FALSE
    /\ isStatsLoaded = FALSE
    /\ searchPc = "idle"
    /\ query = Null
    /\ statCalls = <<>>
    /\ posts = <<>>
    /\ parsedItem = Null

InitLookup ==
    /\ statText = <<>>
    /\ applied = 0
    /\ resolved = Found("", "new")

InitCatalog ==
    /\ cache = Null
    /\ searchIndex = Null
    /\ implicitIndex = Null
    /\ lastFetchAttempt = 0
    /\ fetchPromise = NoPromise
    /\ fetches = <<>>
    /\ call = CallResult("new", "void", NoPromise, Null, "", 1)

InitCommon ==
    /\ now = 0
    /\ last = Result("new", TRUE, 0, 0)
    /\ restrictEnd = 0
    /\ denial = Null
    /\ periods = Null
    /\ remote = Null
    /\ twin = Null
    /\ until = <<>>
    /\ calls = [inside |-> 0, after |-> 0]
    /\ pc = [r \in Requests |-> "idle"]
    /\ granted = [i \in DOMAIN tiers |-> 0]
    /\ base = [i \in DOMAIN tiers |-> tiers[i].hits]
    /\ oneSlot = [r \in Requests |-> FALSE]
    /\ InitCatalog
    /\ InitLookup
    /\ InitComponent
    /\ InitServer

\* a call of checkAndIncrementLimit
CheckCall ==
    /\ LET r == CheckOf(tiers, now) IN
        /\ tiers' = r.tiers
        /\ last' = Result("check", r.allowed, r.timeToWait, 0)
    /\ UNCHANGED catalog
    /\ UNCHANGED lookup
    /\ UNCHANGED component
    /\ UNCHANGED server
    /\ UNCHANGED <<impl, now, restrictEnd, until, periods, twin, remote>>
    /\ UNCHANGED handlers

CheckAndIncrementLimit == CheckCall /\ UNCHANGED <<calls, denial>>

\* a call of updateFromHeaders
HeadersCall(x) ==
    /\ tiers' = HeadersOf(tiers, now, x)
    /\ last' = Result("headers", TRUE, 0, Len(x.stateTuples))
    /\ UNCHANGED catalog
    /\ UNCHANGED lookup
    /\ UNCHANGED component
    /\ UNCHANGED server
    /\ UNCHANGED <<impl, now, restrictEnd, until, calls, twin, remote>>
    /\ UNCHANGED handlers

UpdateFromHeaders(x) == HeadersCall(x) /\ UNCHANGED <<denial, periods>>

\* a call of setRestriction
RestrictCall(seconds) ==
    /\ tiers' = RestrictOf(tiers, now, seconds)
    /\ last' = Result("restrict", TRUE, 0, seconds)
    /\ restrictEnd' = Max2(restrictEnd, now + seconds * 1000)
    /\ UNCHANGED catalog
    /\ UNCHANGED lookup
    /\ UNCHANGED component
    /\ UNCHANGED server
    /\ UNCHANGED <<impl, now, until, calls, twin, remote>>
    /\ UNCHANGED handlers

SetRestriction(seconds) == RestrictCall(seconds) /\ UNCHANGED <<denial, periods>>

GetStatus ==
    /\ tiers' = StatusOf(tiers, now)
    /\ last' = Result("status", TRUE, 0, 0)
    /\ UNCHANGED catalog
    /\ UNCHANGED lookup
    /\ UNCHANGED component
    /\ UNCHANGED server
    /\ UNCHANGED <<impl, now>>
    /\ UNCHANGED history
    /\ UNCHANGED handlers

\* time passes while no code of the service runs
Tick(d, maxNow) ==
    /\ now + d <= maxNow
    /\ now' = now + d
    /\ UNCHANGED catalog
    /\ UNCHANGED lookup
    /\ UNCHANGED component
    /\ UNCHANGED server
    /\ UNCHANGED <<impl, tiers, last>>
    /\ UNCHANGED history
    /\ UNCHANGED handlers

(***************************************************************************)
(* SpecLimiter: the service of rate-limit.service.ts or of part_009, from  *)
(* the default tiers, under any sequence of its operations.                *)
(***************************************************************************)
InitLimiter ==
    /\ impl \in {"Svc", "P9"}
    /\ tiers = createDefaultTiers(0)
    /\ InitCommon

NextLimiter ==
    \/ CheckAndIncrementLimit
    \/ \E x \in LimiterInputs : UpdateFromHeaders(x)
    \/ \E s \in 1..MaxRestrictionSeconds : SetRestriction(s)
    \/ GetStatus
    \/ \E d \in TimeSteps : Tick(d, MaxNow)

SpecLimiter == InitLimiter /\ [][NextLimiter]_vars

\* C1: every tier has 0 <= hits <= max in every reachable state
HitsWithinMax ==
    \A i \in DOMAIN tiers : 0 <= tiers[i].hits /\ tiers[i].hits <= tiers[i].max

\* a tier blocks a request: its window is used up, or a restriction is active
Blocking(t, n) == t.hits >= t.max \/ t.restrictedTime > n

\* the wait of a blocking tier, in whole seconds: to the end of its
\* restriction when restricted, else to the end of its window
RemainingWait(t, n) ==
    IF t.restrictedTime > n THEN Ceil(t.restrictedTime - n, 1000)
    ELSE Ceil(t.period - (n - t.lastUpdated), 1000)

\* hits of a tier once the lazy window reset has run at time n
LazyHits(t, n) == IF n - t.lastUpdated >= t.period THEN 0 ELSE t.hits

C1_Witness ==
    /\ last.op = "headers"
    /\ \E i \in DOMAIN tiers : tiers[i].hits = tiers[i].max /\ tiers[i].max > 0
    /\ \E i \in DOMAIN tiers : tiers[i].hits > 0 /\ tiers[i].hits < tiers[i].max

\* C4: a denied check returns the least remaining wait of the blocking tiers
TimeToWaitIsMinimum ==
    [][CheckAndIncrementLimit /\ ~last'.allowed =>
        LET blocking == {i \in DOMAIN tiers' : Blocking(tiers'[i], now)} IN
        /\ blocking # {}
        /\ \E i \in blocking : last'.timeToWait = RemainingWait(tiers'[i], now)
        /\ \A i \in blocking : last'.timeToWait <= RemainingWait(tiers'[i], now)]_vars

C4_Witness ==
    /\ last.op = "check" /\ ~last.allowed
    /\ \E i, j \in DOMAIN tiers :
        /\ Blocking(tiers[i], now) /\ Blocking(tiers[j], now)
        /\ ~Blocking(tiers[1], now)
        /\ RemainingWait(tiers[i], now) < RemainingWait(tiers[j], now)
        /\ last.timeToWait = RemainingWait(tiers[i], now)

\* C6: a check is allowed exactly when, after the lazy reset, no tier blocks;
\* then every tier's hits grows by one, and otherwise none does
AllOrNothing ==
    [][CheckAndIncrementLimit =>
        LET open == \A i \in DOMAIN tiers :
                        /\ LazyHits(tiers[i], now) < tiers[i].max
                        /\ ~(tiers[i].restrictedTime > now)
        IN  /\ last'.allowed = open
            /\ DOMAIN tiers' = DOMAIN tiers
            /\ \A i \in DOMAIN tiers :
                tiers'[i].hits = LazyHits(tiers[i], now) + (IF open THEN 1 ELSE 0)]_vars

C6_Witness ==
    /\ last.op = "check" /\ ~last.allowed
    /\ \E i \in DOMAIN tiers : tiers[i].hits > 0 /\ tiers[i].hits < tiers[i].max
    /\ \E i \in DOMAIN tiers : tiers[i].restrictedTime > now


\* C7: a state header with a malformed tuple at one position leaves that tier
\* as it was (up to the lazy reset of getStatus) and applies the tuples of the
\* other positions
MalformedTupleSkipped ==
    [][\A x \in LimiterInputs : \A j \in 1..3 :
        ( /\ x.raw.rules = <<"ip">>
          /\ x.ruleTuples = BaseRules
          /\ x.stateTuples[j] \in MalformedStates
          /\ \A k \in (1..3) \ {j} : x.stateTuples[k] = BaseStates[k]
          /\ UpdateFromHeaders(x) )
        => /\ tiers'[j] = StatusOf(<<tiers[j]>>, now)[1]
           /\ \A k \in (1..3) \ {j} :
                /\ tiers'[k].lastUpdated = now
                /\ tiers'[k].hits = Min2(BaseStateValues[k][1], tiers'[k].max)
                /\ tiers'[k].period = IF impl = "Svc"
                                      THEN BaseStateValues[k][2] * 1000
                                      ELSE tiers'[k].period]_vars

\* C9: while a restriction set by setRestriction runs, no check is allowed
RestrictionOutlastsHeaders ==
    [][CheckAndIncrementLimit /\ now < restrictEnd => ~last'.allowed]_vars


\* the numbers of BaseRules, and the numbers a well-formed state tuple of
\* LimiterInputs may carry
BaseRuleValues == << <<2, 1, 60>>, <<3, 10, 60>>, <<4, 10, 60>> >>

WellFormedStateValues == { <<1, 1, 0>>, <<1, 10, 0>>, <<9, 1, 0>>, <<1, 1, 1>> }

\* C11: after updateFromHeaders, a tier whose position carries a well-formed
\* rule tuple and state tuple holds the hits, max, window length and
\* restriction deadline that the server reported for it
HeadersOverwriteTier ==
    [][\A x \in LimiterInputs : \A i \in 1..3 : \A v \in WellFormedStateValues :
        ( /\ x.raw.rules = <<"ip">>
          /\ x.ruleTuples = BaseRules
          /\ x.stateTuples[i] = Tuple3(v[1], v[2], v[3])
          /\ UpdateFromHeaders(x) )
        => /\ tiers'[i].hits = v[1]
           /\ tiers'[i].max = BaseRuleValues[i][1]
           /\ tiers'[i].period = BaseRuleValues[i][2] * 1000
           /\ tiers'[i].restrictedTime = IF v[3] > 0 THEN now + v[3] * 1000 ELSE 0]_vars

(***************************************************************************)
(* SpecDefault: the same two services from the default tiers, with no      *)
(* header update and no restriction, over the first 10 s window and past   *)
(* its end.                                                                *)
(***************************************************************************)
FirstWindow == createDefaultTiers(0)[1]

\* a check, counted by whether the first window is still running
CountedCheck ==
    /\ calls.inside + calls.after < MaxCalls
    /\ CheckCall
    /\ UNCHANGED denial
    /\ calls' = IF now < FirstWindow.period
                THEN [calls EXCEPT !.inside = @ + 1]
                ELSE [calls EXCEPT !.after = @ + 1]

InitDefault == InitLimiter

NextDefault ==
    \/ CountedCheck
    \/ GetStatus
    \/ \E d \in TimeSteps : Tick(d, MaxNowDefault)

SpecDefault == InitDefault /\ [][NextDefault]_vars

\* C5: inside the first 10 s window the first 5 checks are allowed and every
\* further one is denied with a wait of at least 1 s; the first check at or
\* after 10 s finds the 10 s tier reset and is allowed
DefaultWindow ==
    [][CountedCheck =>
        /\ (now < FirstWindow.period /\ calls.inside < FirstWindow.max)
              => last'.allowed
        /\ (now < FirstWindow.period /\ calls.inside >= FirstWindow.max)
              => (~last'.allowed /\ last'.timeToWait >= 1)
        /\ (now >= FirstWindow.period /\ calls.after = 0)
              => (last'.allowed /\ tiers'[1].hits = 1)]_vars

C5_Witness ==
    /\ calls.inside > FirstWindow.max
    /\ calls.after = 1
    /\ now = FirstWindow.period
    /\ last.op = "check" /\ last.allowed
    /\ tiers[1].hits = 1 /\ tiers[2].hits = FirstWindow.max + 1


(***************************************************************************)
(* SpecTiers: the services of part_009 and of part_008, constructed with   *)
(* the default tiers or with MAX_TIERS tiers, under updateFromHeaders with *)
(* headers of up to MaxHeaderTuples tuples.                                *)
(***************************************************************************)
Repeat(v, k) == [i \in 1..k |-> v]

LongInputs ==
    {IpInput(Repeat(Tuple3(2, 1, 60), k), Repeat(Tuple3(1, 1, 0), k)) :
        k \in 1..MaxHeaderTuples}
    \cup {IpInput(Repeat(Tuple3(2, 1, 60), k),
                  [Repeat(Tuple3(1, 1, 0), k) EXCEPT ![j] = v]) :
            k \in {MaxHeaderTuples}, j \in {2, 5}, v \in {<<>>, <<"x", ":", "1", ":", "0">>}}
    \cup {IpInput(Repeat(Tuple3(2, 1, 60), MaxHeaderTuples), Repeat(Tuple3(1, 1, 0), 2))}

InitTiers ==
    /\ impl \in {"P9", "P8"}
    /\ tiers \in {createDefaultTiers(0), Repeat(createDefaultTiers(0)[1], MAX_TIERS)}
    /\ InitCommon

NextTiers ==
    \/ \E x \in LongInputs : UpdateFromHeaders(x)
    \/ GetStatus
    \/ \E d \in TimeSteps : Tick(d, MaxNowTiers)

SpecTiers == InitTiers /\ [][NextTiers]_vars

\* C8: the tier list never holds more than MAX_TIERS tiers and never shrinks
TierListCapped ==
    /\ [](Len(tiers) <= MAX_TIERS)
    /\ [][Len(tiers') >= Len(tiers)]_vars

C8_Witness ==
    /\ last.op = "headers" /\ last.arg > MAX_TIERS
    /\ Len(tiers) = MAX_TIERS
    /\ tiers[MAX_TIERS].max # createDefaultTiers(0)[1].max


(***************************************************************************)
(* SpecRL: the service of rateLimit.ts from its default tiers, under any   *)
(* sequence of its operations.                                             *)
(***************************************************************************)
RLInputs ==
    {HeaderInput(<<>>, <<>>, NoHeaders), IpInput(BaseRules, BaseStates)}
    \cup {IpInput(BaseRules, [BaseStates EXCEPT ![j] = v]) :
            j \in {1, 2}, v \in {Tuple3(1, 1, 2), <<>>}}

CheckLimit ==
    /\ LET r == checkLimit_rl(tiers, now) IN
        /\ tiers' = r.tiers
        /\ last' = Result("check", r.allowed, r.timeToWait, 0)
    /\ UNCHANGED catalog
    /\ UNCHANGED lookup
    /\ UNCHANGED component
    /\ UNCHANGED server
    /\ UNCHANGED <<impl, now>>
    /\ UNCHANGED history
    /\ UNCHANGED handlers

\* incrementLimits, called for a request that checkLimit allowed
IncrementLimits ==
    /\ last.op = "check" /\ last.allowed
    /\ tiers' = incrementLimits_rl(tiers, now)
    /\ last' = Result("increment", TRUE, 0, 0)
    /\ UNCHANGED catalog
    /\ UNCHANGED lookup
    /\ UNCHANGED component
    /\ UNCHANGED server
    /\ UNCHANGED <<impl, now>>
    /\ UNCHANGED history
    /\ UNCHANGED handlers

GetStatusRL ==
    /\ tiers' = getStatus_rl(tiers, now)
    /\ last' = Result("status", TRUE, 0, 0)
    /\ UNCHANGED catalog
    /\ UNCHANGED lookup
    /\ UNCHANGED component
    /\ UNCHANGED server
    /\ UNCHANGED <<impl, now>>
    /\ UNCHANGED history
    /\ UNCHANGED handlers

\* the end of the restriction the header records for tier i, 0 for none
Recorded(x, i, n, old) ==
    LET tu == At(appliedTuples_rl(x.rl), i - 1) IN
    IF tu \in {Absent, <<>>} THEN (IF i \in DOMAIN old THEN old[i] ELSE 0)
    ELSE IF tu[4] > 0 THEN n + tu[4] * 1000 ELSE 0

UpdateFromHeadersRL(x) ==
    /\ tiers' = updateFromHeaders_rl(tiers, now, x.rl)
    /\ last' = Result("headers", TRUE, 0, Len(x.stateTuples))
    /\ until' = [i \in DOMAIN tiers' |-> Recorded(x, i, now, until)]
    /\ UNCHANGED catalog
    /\ UNCHANGED lookup
    /\ UNCHANGED component
    /\ UNCHANGED server
    /\ UNCHANGED <<impl, now, restrictEnd, calls, denial, periods, twin, remote>>
    /\ UNCHANGED handlers

InitRL ==
    /\ impl = "RL"
    /\ tiers = createDefaultTiers_rl(0)
    /\ InitCommon

NextRL ==
    \/ CheckLimit
    \/ IncrementLimits
    \/ GetStatusRL
    \/ \E x \in RLInputs : UpdateFromHeadersRL(x)
    \/ \E d \in TimeSteps : Tick(d, MaxNow)

SpecRL == InitRL /\ [][NextRL]_vars

\* C10: while a restriction that updateFromHeaders recorded for some tier
\* runs, checkLimit does not allow a request
HeaderRestrictionHolds ==
    [][CheckLimit /\ (\E i \in DOMAIN until : now < until[i]) => ~last'.allowed]_vars


(***************************************************************************)
(* The POST handlers.  A request is idle until it arrives, then runs the   *)
(* handler's code up to its first await ("body", the request body is being *)
(* read), up to its second ("search", it has been forwarded upstream) and  *)
(* to its end ("done").  The code between two awaits runs as one step;     *)
(* at an await any other request may run.                                  *)
(***************************************************************************)
\* responses without rate-limit headers, and with ones that leave the first
\* tier of rate-limit.service.ts two free slots, that of rateLimit.ts one
Post5Inputs ==
    {HeaderInput(<<>>, <<>>, NoHeaders),
     IpInput(BaseRules, [BaseStates EXCEPT ![1] = Tuple3(3, 1, 0)])}

Post2Inputs ==
    {HeaderInput(<<>>, <<>>, NoHeaders), IpInput(BaseRules, BaseStates)}

Statuses == {200, 403, 429}

\* response.ok
IsOk(status) == status \in 200..299

\* what the upstream search endpoint does with a forwarded request: no
\* connection ("network"), or a response with a status, rate-limit headers x,
\* a Retry-After header and a body: "result" (an object with an id),
\* "badjson" (not JSON), "notobject" (JSON null), "noid" (an object without id)
Upstream(kind, status, body, x, retryHeader) ==
    [kind |-> kind, status |-> status, body |-> body, x |-> x, retryHeader |-> retryHeader]

RetryAfterValues == {Absent, <<"1">>}

UpstreamBodies == {"result", "badjson", "notobject", "noid"}

UpstreamsOver(inputs) ==
    {Upstream("network", 0, "none", HeaderInput(<<>>, <<>>, NoHeaders), Absent)}
    \cup {Upstream("response", 429, "error", x, h) : x \in inputs, h \in RetryAfterValues}
    \cup {Upstream("response", st, "error", x, Absent) : st \in {403, 500}, x \in inputs}
    \cup {Upstream("response", 200, b, x, Absent) : b \in UpstreamBodies, x \in inputs}

\* the status of the HTTP response the upstream gave, Null without one
StatusOfUpstream(u) == IF u.kind = "response" THEN <<u.status>> ELSE Null

\* searchPoETrades: whether it returns {response, data} or throws
searchPoETrades(u) ==
    IF u.kind = "network" THEN FALSE      \* makeTradeRequest: Connection failed
    ELSE IF ~IsOk(u.status) THEN FALSE    \* Trade API request failed with status
    ELSE IF u.body = "badjson" THEN FALSE \* parseTradeResponse: JSON parse failed
    ELSE IF u.body = "notobject" THEN FALSE \* Invalid response structure
    ELSE IF u.body = "noid" THEN FALSE    \* missing search ID
    ELSE TRUE

\* TradeApiService.search: whether it returns {response, data} or throws
search(u) ==
    IF u.kind = "network" THEN FALSE      \* Failed to connect to PoE API
    ELSE IF ~IsOk(u.status) THEN TRUE     \* { response, data: { id: '', result: [] } }
    ELSE IF u.body = "badjson" THEN FALSE \* Failed to parse API response
    ELSE IF u.body = "notobject" THEN FALSE \* data.id of null: a TypeError
    ELSE IF u.body = "noid" THEN FALSE    \* missing search ID
    ELSE TRUE

Slots(ts) == [i \in DOMAIN ts |-> <<ts[i].hits, ts[i].max>>]

InFlight == {r \in Requests : pc[r] \in {"body", "search"}}

\* the slots each tier had free when it was last reset or reconciled, and
\* the requests allowed since: a tier that a step other than the admission
\* itself changed starts again from its new hits
Rebased(old, new, i) == i \notin DOMAIN old \/ new[i] # old[i]

\* await request.json()
PostBody(r) ==
    /\ pc[r] = "body"
    /\ \E ok \in BOOLEAN :
          /\ pc' = [pc EXCEPT ![r] = IF ok THEN "search" ELSE "done"]
          /\ reply' = IF ok THEN reply
                      ELSE Reply(400, Null, Null, FALSE, Null, FALSE, FALSE, FALSE)
    /\ UNCHANGED disk
    /\ UNCHANGED catalog
    /\ UNCHANGED lookup
    /\ UNCHANGED component
    /\ UNCHANGED <<impl, now, tiers, last, granted, base, oneSlot>>
    /\ UNCHANGED history

\* the next request arrives
NewRequest(r) ==
    /\ pc[r] = "done"
    /\ pc' = [pc EXCEPT ![r] = "idle"]
    /\ UNCHANGED catalog
    /\ UNCHANGED lookup
    /\ UNCHANGED component
    /\ UNCHANGED server
    /\ UNCHANGED <<impl, now, tiers, last, granted, base, oneSlot>>
    /\ UNCHANGED history

\* the response to a denied request carrying a fixed wait of 10 seconds
deniedResponse5_fixedWait(timeToWait) ==
    Reply(429, <<10>>, Null, FALSE, Null, FALSE, FALSE, FALSE)

\* part_005, lines 11-20: the response to a request the limiter denied;
\* retryAfter is timeToWait || 0
deniedResponse5(timeToWait) ==
    Reply(429, <<IF timeToWait = 0 THEN 0 ELSE timeToWait>>, Null,
          FALSE, Null, FALSE, FALSE, FALSE)

\* part_005, lines 9-21: checkAndIncrementLimit on entry
PostStart5(r) ==
    /\ impl # "RL"
    /\ pc[r] = "idle"
    /\ LET fresh == StatusOf(tiers, now)
           res == CheckOf(tiers, now)
       IN
        /\ tiers' = IF res.allowed THEN res.tiers ELSE StatusOf(res.tiers, now)
        /\ last' = Result("check", res.allowed, res.timeToWait, 0)
        /\ pc' = [pc EXCEPT ![r] = IF res.allowed THEN "body" ELSE "done"]
        /\ base' = [i \in DOMAIN tiers |->
                       IF Rebased(tiers, fresh, i) THEN fresh[i].hits ELSE base[i]]
        /\ granted' = [i \in DOMAIN tiers |->
                       (IF Rebased(tiers, fresh, i) THEN 0 ELSE granted[i])
                       + (IF res.allowed THEN 1 ELSE 0)]
        /\ reply' = IF res.allowed THEN reply ELSE deniedResponse5(res.timeToWait)
    /\ UNCHANGED disk
    /\ UNCHANGED catalog
    /\ UNCHANGED lookup
    /\ UNCHANGED component
    /\ UNCHANGED <<impl, now, oneSlot>>
    /\ UNCHANGED history

\* part_002, lines 43-58: the search failed
PostSearchError(r) ==
    /\ pc[r] = "search"
    /\ pc' = [pc EXCEPT ![r] = "done"]
    /\ last' = Result("error", TRUE, 0, 0)
    /\ reply' = Reply(500, Null, Null, TRUE, Null, FALSE, FALSE, FALSE)
    /\ UNCHANGED disk
    /\ UNCHANGED catalog
    /\ UNCHANGED lookup
    /\ UNCHANGED component
    /\ UNCHANGED <<impl, now, tiers, granted, base, oneSlot>>
    /\ UNCHANGED history

\* part_005, lines 35-46: searchPoETrades threw
SearchErrorCall5(r, u) ==
    /\ impl # "RL"
    /\ pc[r] = "search"
    /\ ~searchPoETrades(u)
    /\ pc' = [pc EXCEPT ![r] = "done"]
    /\ last' = Result("error", TRUE, 0, 0)
    /\ reply' = Reply(500, Null, Null, TRUE, StatusOfUpstream(u), FALSE, FALSE, FALSE)
    /\ UNCHANGED disk
    /\ UNCHANGED catalog
    /\ UNCHANGED lookup
    /\ UNCHANGED component
    /\ UNCHANGED <<impl, now, tiers, granted, base, oneSlot>>
    /\ UNCHANGED <<restrictEnd, until, calls, denial, periods, twin>>

PostSearchError5(r, u) == SearchErrorCall5(r, u) /\ UNCHANGED remote

\* part_005, handleApiError and line 55: the response for an upstream
\* response with this status
handleApiError5(status, retryAfter) ==
    IF IsOk(status)
    THEN Reply(200, Null, <<"result">>, TRUE, <<status>>, TRUE, FALSE, FALSE)
    ELSE IF status = 429
    THEN Reply(429, <<retryAfter>>, Null, TRUE, <<status>>, TRUE, TRUE, FALSE)
    ELSE Reply(status, Null, Null, TRUE, <<status>>, TRUE, FALSE, FALSE)

\* part_005, lines 48-55 and handleApiError: searchPoETrades returned
ResponseCall5(r, u) ==
    /\ impl # "RL"
    /\ pc[r] = "search"
    /\ searchPoETrades(u)
    /\ LET updated == HeadersOf(tiers, now, u.x)
           fromHeader == getRetryAfterFromHeaders_svc(u.retryHeader)
           retryAfter == IF fromHeader = <<>> THEN 10 ELSE fromHeader[1]
       IN
        /\ tiers' = IF u.status = 429
                    THEN StatusOf(StatusOf(RestrictOf(updated, now, retryAfter), now), now)
                    ELSE updated
        /\ restrictEnd' = IF u.status = 429 THEN Max2(restrictEnd, now + retryAfter * 1000)
                          ELSE restrictEnd
        /\ reply' = handleApiError5(u.status, retryAfter)
    /\ pc' = [pc EXCEPT ![r] = "done"]
    /\ last' = Result("response", TRUE, 0, 0)
    /\ base' = [i \in DOMAIN tiers' |->
                   IF Rebased(tiers, tiers', i) THEN tiers'[i].hits ELSE base[i]]
    /\ granted' = [i \in DOMAIN tiers' |->
                   IF Rebased(tiers, tiers', i) THEN 0 ELSE granted[i]]
    /\ UNCHANGED disk
    /\ UNCHANGED catalog
    /\ UNCHANGED lookup
    /\ UNCHANGED component
    /\ UNCHANGED <<impl, now, until, calls, denial, periods, twin, oneSlot>>

PostResponse5(r, u) == ResponseCall5(r, u) /\ UNCHANGED remote

InitPost5 ==
    /\ impl = "Svc"
    /\ tiers = createDefaultTiers(0)
    /\ InitCommon

NextPost5 ==
    \/ \E r \in Requests : PostStart5(r)
    \/ \E r \in Requests : PostBody(r)
    \/ \E r \in Requests, u \in UpstreamsOver(Post5Inputs) : PostSearchError5(r, u)
    \/ \E r \in Requests, u \in UpstreamsOver(Post5Inputs) : PostResponse5(r, u)
    \/ \E r \in Requests : NewRequest(r)
    \/ \E d \in TimeSteps : Tick(d, MaxNowPost)

SpecPost5 == InitPost5 /\ [][NextPost5]_vars

\* C2: of the requests that arrive while a tier is neither reset nor
\* reconciled with a response, at most as many are allowed as the tier had
\* free slots, however the handlers interleave at their awaits
AtMostFreeSlots ==
    \A i \in DOMAIN tiers : granted[i] <= tiers[i].max - base[i]

C2_Witness ==
    /\ Cardinality(InFlight) >= 2
    /\ last.op = "check" /\ ~last.allowed
    /\ base[1] > 0
    /\ granted[1] >= 2
    /\ granted[1] = tiers[1].max - base[1]

\* part_002, lines 14-26: checkLimit on entry
PostStart2(r) ==
    /\ pc[r] = "idle"
    /\ LET res == checkLimit_rl(tiers, now) IN
        /\ tiers' = IF res.allowed THEN res.tiers ELSE getStatus_rl(res.tiers, now)
        /\ last' = Result("check", res.allowed, res.timeToWait, 0)
        /\ pc' = [pc EXCEPT ![r] = IF res.allowed THEN "body" ELSE "done"]
        /\ oneSlot' = [q \in Requests |->
                          IF q = r
                          THEN res.allowed
                               /\ \E i \in DOMAIN res.tiers :
                                     res.tiers[i].max - res.tiers[i].hits = 1
                          ELSE oneSlot[q] /\ Slots(tiers') = Slots(tiers)]
    /\ UNCHANGED catalog
    /\ UNCHANGED lookup
    /\ UNCHANGED component
    /\ UNCHANGED server
    /\ UNCHANGED <<impl, now, granted, base>>
    /\ UNCHANGED history

\* part_002, lines 60-114: the response of the search
PostResponse2(r, x, status) ==
    /\ pc[r] = "search"
    /\ LET updated == updateFromHeaders_rl(tiers, now, x.rl) IN
       tiers' = IF status = 200 THEN incrementLimits_rl(updated, now)
                ELSE IF status = 429 THEN getStatus_rl(getStatus_rl(updated, now), now)
                ELSE updated
    /\ pc' = [pc EXCEPT ![r] = "done"]
    /\ last' = Result("response", TRUE, 0, 0)
    /\ oneSlot' = [q \in Requests |-> q # r /\ oneSlot[q] /\ Slots(tiers') = Slots(tiers)]
    /\ UNCHANGED catalog
    /\ UNCHANGED lookup
    /\ UNCHANGED component
    /\ UNCHANGED server
    /\ UNCHANGED <<impl, now, granted, base>>
    /\ UNCHANGED history

InitPost2 ==
    /\ impl = "RL"
    /\ tiers = createDefaultTiers_rl(0)
    /\ InitCommon

NextPost2 ==
    \/ \E r \in Requests : PostStart2(r)
    \/ \E r \in Requests : PostBody(r)
    \/ \E r \in Requests : PostSearchError(r)
    \/ \E r \in Requests, x \in Post2Inputs, status \in Statuses : PostResponse2(r, x, status)
    \/ \E r \in Requests : NewRequest(r)
    \/ \E d \in TimeSteps : Tick(d, MaxNowPost)

SpecPost2 == InitPost2 /\ [][NextPost2]_vars

\* C3: two requests that both passed the check on one and the same free
\* slot of a tier are never both forwarded to the upstream search
NoDoubleForward ==
    \A r1, r2 \in Requests :
        r1 # r2 /\ oneSlot[r1] /\ oneSlot[r2] => ~(pc[r1] = "search" /\ pc[r2] = "search")


(***************************************************************************)
(* The POST handler of routes/api/poe/search/+server.ts, on rateLimit.ts   *)
(* and TradeApiService.search, and the specification of both handlers'     *)
(* answers: impl "Svc" runs part_005, impl "RL" runs +server.ts.           *)
(***************************************************************************)
\* checkRateLimit handing back a denial without its response
checkRateLimit_noResponse(ts, n) ==
    LET res == checkLimit_rl(ts, n) IN
    IF ~res.allowed
    THEN [allowed |-> FALSE, timeToWait |-> res.timeToWait,
          tiers |-> getStatus_rl(res.tiers, n), response |-> Null]
    ELSE [allowed |-> TRUE, timeToWait |-> res.timeToWait,
          tiers |-> incrementLimits_rl(res.tiers, n), response |-> Null]

\* +server.ts, checkRateLimit: the limiter's answer, the tiers it leaves, and
\* the response for a denied request
checkRateLimit(ts, n) ==
    LET res == checkLimit_rl(ts, n) IN
    IF ~res.allowed
    THEN [allowed |-> FALSE, timeToWait |-> res.timeToWait,
          tiers |-> getStatus_rl(getStatus_rl(res.tiers, n), n),
          response |-> <<Reply(429, <<res.timeToWait>>, Null,
                               FALSE, Null, FALSE, FALSE, FALSE)>>]
    ELSE [allowed |-> TRUE, timeToWait |-> res.timeToWait,
          tiers |-> incrementLimits_rl(res.tiers, n), response |-> Null]

\* +server.ts, lines 12-19
PostStartServer(r) ==
    /\ impl = "RL"
    /\ pc[r] = "idle"
    /\ LET res == checkRateLimit(tiers, now) IN
        /\ tiers' = res.tiers
        /\ last' = Result("check", res.allowed, res.timeToWait, 0)
        /\ pc' = [pc EXCEPT ![r] = IF res.allowed THEN "body" ELSE "done"]
        /\ reply' = IF res.allowed THEN reply
                    ELSE IF res.response = Null
                    THEN Reply(0, Null, Null, FALSE, Null, FALSE, FALSE, TRUE)
                    ELSE res.response[1]
    /\ UNCHANGED disk
    /\ UNCHANGED catalog
    /\ UNCHANGED lookup
    /\ UNCHANGED component
    /\ UNCHANGED <<impl, now, granted, base, oneSlot>>
    /\ UNCHANGED history

\* +server.ts, handleApiError and line 35: the response for an upstream
\* response with this status; retryAfter is parseInt(Retry-After || '10'),
\* <<>> when that is NaN
handleApiError(status, retryHeader) ==
    IF IsOk(status)
    THEN Reply(200, Null, <<"result">>, TRUE, <<status>>, TRUE, FALSE, FALSE)
    ELSE IF status = 429
    THEN Reply(429, parseInt(IF retryHeader = Absent THEN <<"1", "0">> ELSE retryHeader),
               Null, TRUE, <<status>>, TRUE, FALSE, FALSE)
    ELSE Reply(status, Null, Null, TRUE, <<status>>, TRUE, FALSE, FALSE)

\* +server.ts, lines 26-45: the try block and its catch
PostSearchServer(r, u) ==
    /\ impl = "RL"
    /\ pc[r] = "search"
    /\ tiers' = IF search(u) THEN updateFromHeaders_rl(tiers, now, u.x.rl) ELSE tiers
    /\ reply' = IF search(u) THEN handleApiError(u.status, u.retryHeader)
                ELSE Reply(500, Null, Null, TRUE, StatusOfUpstream(u), FALSE, FALSE, FALSE)
    /\ pc' = [pc EXCEPT ![r] = "done"]
    /\ last' = Result(IF search(u) THEN "response" ELSE "error", TRUE, 0, 0)
    /\ UNCHANGED disk
    /\ UNCHANGED catalog
    /\ UNCHANGED lookup
    /\ UNCHANGED component
    /\ UNCHANGED <<impl, now, granted, base, oneSlot>>
    /\ UNCHANGED history

InitReplies ==
    /\ impl \in {"Svc", "RL"}
    /\ tiers = IF impl = "Svc" THEN createDefaultTiers(0) ELSE createDefaultTiers_rl(0)
    /\ InitCommon

\* the requests whose handlers run here, side by side
Answered == {1, 2}

NextReplies ==
    \/ \E r \in Answered : PostStart5(r)
    \/ \E r \in Answered : PostBody(r)
    \/ \E r \in Answered, u \in UpstreamsOver(Post5Inputs) : PostSearchError5(r, u)
    \/ \E r \in Answered, u \in UpstreamsOver(Post5Inputs) : PostResponse5(r, u)
    \/ \E r \in Answered : PostStartServer(r)
    \/ \E r \in Answered, u \in UpstreamsOver(Post2Inputs) : PostSearchServer(r, u)
    \/ \E r \in Answered : NewRequest(r)
    \/ \E d \in TimeSteps : Tick(d, MaxNowPost)

SpecReplies == InitReplies /\ [][NextReplies]_vars


(***************************************************************************)
(* The stat catalog cache.  A stat text is a sequence of one-character     *)
(* strings.  A search index (a Fuse instance) is kept as the list it was   *)
(* built from.  A request to the stats endpoint is a record of fetches:    *)
(* when it started, whether its promise is pending, fulfilled or rejected, *)
(* the list or the error it settled with, and whether the handler that     *)
(* clears fetchPromise once it settles has still to run.                   *)
(***************************************************************************)
CACHE_RETRY_INTERVAL == 60000

CACHE_TTL == 300000

MaxFetches == 2
MaxWaiters == 3
MaxNowStats == 450000

\* Date.now() when the module is loaded, and the steps of the clock
StartOfStats == 60000

StatsTimeSteps == {30000}

StatOption(id, text, type) == [id |-> id, text |-> text, type |-> type]

\* an entry and a group of the endpoint's JSON; ok: it passes isStatEntry,
\* isStatGroup (it has the fields a StatEntry, a StatGroup must have)
StatEntry(id, text, ok) == [id |-> id, text |-> text, ok |-> ok]

StatGroup(label, entries, ok) == [label |-> label, entries |-> entries, ok |-> ok]

LifeText == <<"+", "#", " ", "t", "o", " ", "m", "a", "x", "i", "m", "u", "m", " ", "l", "i", "f", "e">>

ManaText == <<"a", "d", "d", "s", " ", "#", " ", "t", "o", " ", "m", "a", "n", "a">>

ExplicitGroup ==
    StatGroup("Explicit", <<StatEntry("e1", LifeText, TRUE), StatEntry("e2", ManaText, TRUE)>>, TRUE)

ImplicitGroup == StatGroup("Implicit", <<StatEntry("i1", LifeText, TRUE)>>, TRUE)

MalformedGroup == StatGroup("Explicit", <<>>, FALSE)

GroupOfMalformed == StatGroup("Explicit", <<StatEntry("x1", LifeText, FALSE)>>, TRUE)

\* what the endpoint may answer: no connection, a non-success status, a
\* body that is not JSON, JSON without a result array, JSON with an error
\* field, and JSON with a result array
Response(kind, result) == [kind |-> kind, result |-> result]

FailingResponses ==
    {Response(k, <<>>) : k \in {"network", "status", "badjson", "shape", "error"}}
    \cup {Response("body", <<>>), Response("body", <<MalformedGroup, GroupOfMalformed>>)}

GoodResponses ==
    {Response("body", <<ExplicitGroup>>),
     Response("body", <<ExplicitGroup, ImplicitGroup>>)}

Responses == FailingResponses \cup GoodResponses

Ok(value) == [ok |-> TRUE, value |-> value]

Err(message) == [ok |-> FALSE, value |-> message]

RECURSIVE Concat(_)
Concat(ss) == IF ss = <<>> THEN <<>> ELSE Head(ss) \o Concat(Tail(ss))

CatalogState ==
    [cache |-> cache, searchIndex |-> searchIndex, implicitIndex |-> implicitIndex,
     lastFetchAttempt |-> lastFetchAttempt, fetchPromise |-> fetchPromise,
     fetches |-> fetches]

SetCatalog(st) ==
    /\ cache' = st.cache
    /\ searchIndex' = st.searchIndex
    /\ implicitIndex' = st.implicitIndex
    /\ lastFetchAttempt' = st.lastFetchAttempt
    /\ fetchPromise' = st.fetchPromise
    /\ fetches' = st.fetches

\* fetch('/api/poe/stats') is called: the request is sent, its promise is stored
StartFetch(st, n) ==
    [st EXCEPT !.lastFetchAttempt = n,
               !.fetches = Append(@, [start |-> n, status |-> "pending",
                                      value |-> Null,
                                      cleanup |-> TRUE]),
               !.fetchPromise = Len(st.fetches) + 1]

Returned(st, kind, value) ==
    [st |-> st, kind |-> kind,
     promise |-> IF kind = "promise" THEN value ELSE NoPromise,
     list |-> IF kind = "list" THEN <<value>> ELSE Null,
     error |-> IF kind = "throw" THEN value ELSE ""]

Unavailable == "Stats cache is unavailable. Please try again later."

Pending(k) == k \in DOMAIN fetches /\ fetches[k].status = "pending"

PendingFetches == {k \in DOMAIN fetches : Pending(k)}

(***************************************************************************)
(* stat-utils.ts                                                           *)
(***************************************************************************)
\* isCacheValid taking no snapshot for valid
isCacheValid_su_never(st, n) == FALSE

isCacheValid_su(st, n) == st.cache # Null /\ n - st.cache[1].timestamp < CACHE_TTL

\* fetchStats starting a request although one is pending
fetchStats_su_unshared(st, n) ==
    IF st.cache # Null /\ isCacheValid_su(st, n)
    THEN Returned(st, "list", st.cache[1].allStats)
    ELSE IF n - st.lastFetchAttempt < CACHE_RETRY_INTERVAL /\ st.cache = Null
    THEN Returned(st, "throw", Unavailable)
    ELSE Returned(StartFetch(st, n), "promise", Len(st.fetches) + 1)

\* fetchStats without the retry interval
fetchStats_su_unthrottled(st, n) ==
    IF st.fetchPromise # NoPromise THEN Returned(st, "promise", st.fetchPromise)
    ELSE IF st.cache # Null /\ isCacheValid_su(st, n)
    THEN Returned(st, "list", st.cache[1].allStats)
    ELSE Returned(StartFetch(st, n), "promise", Len(st.fetches) + 1)

\* fetchStats up to its await
fetchStats_su(st, n) ==
    IF st.fetchPromise # NoPromise THEN Returned(st, "promise", st.fetchPromise)
    ELSE IF st.cache # Null /\ isCacheValid_su(st, n)
    THEN Returned(st, "list", st.cache[1].allStats)
    ELSE IF n - st.lastFetchAttempt < CACHE_RETRY_INTERVAL /\ st.cache = Null
    THEN Returned(st, "throw", Unavailable)
    ELSE Returned(StartFetch(st, n), "promise", Len(st.fetches) + 1)

\* fetchStatsFromAPI and parseStatsResponse
parseStatsResponse_su(resp) ==
    IF resp.kind = "network" THEN Err("Network failed")
    ELSE IF resp.kind = "status" THEN Err("Server error")
    ELSE IF resp.kind = "badjson" THEN Err("Bad JSON from server")
    ELSE IF resp.kind = "shape" THEN Err("Invalid response format from server")
    ELSE IF resp.kind = "error" THEN Err("data.error")
    ELSE IF Len(resp.result) = 0 THEN Err("No stats data from server")
    ELSE Ok(resp.result)

groupStats_su(group) ==
    IF ~group.ok THEN <<>>
    ELSE LET valid == SelectSeq(group.entries, LAMBDA e : e.ok) IN
         [i \in 1..Len(valid) |-> StatOption(valid[i].id, valid[i].text, group.label)]

processStatsData_su(result) ==
    LET allStats == Concat([g \in 1..Len(result) |-> groupStats_su(result[g])]) IN
    IF Len(allStats) = 0 THEN Err("No valid stats received")
    ELSE Ok([allStats |-> allStats,
             implicitStats |-> SelectSeq(allStats, LAMBDA o : o.type = "Implicit")])

\* doFetchStats keeping a snapshot it had when the fetch fails
doFetchStats_su_keeping(st, n, k, resp) ==
    LET parsed == parseStatsResponse_su(resp)
        processed == IF parsed.ok THEN processStatsData_su(parsed.value) ELSE parsed
    IN  IF processed.ok
        THEN [st EXCEPT
                !.cache = <<[allStats |-> processed.value.allStats,
                             implicitStats |-> processed.value.implicitStats,
                             timestamp |-> n]>>,
                !.searchIndex = <<processed.value.allStats>>,
                !.implicitIndex = IF Len(processed.value.implicitStats) > 0
                                  THEN <<processed.value.implicitStats>> ELSE Null,
                !.fetches[k].status = "fulfilled",
                !.fetches[k].value = <<processed.value.allStats>>]
        ELSE [st EXCEPT !.fetches[k].status = "rejected"]

\* doFetchStats from the answer of the endpoint on: createOptimizedCache on
\* success, clearCache and the error on failure
doFetchStats_su(st, n, k, resp) ==
    LET parsed == parseStatsResponse_su(resp)
        processed == IF parsed.ok THEN processStatsData_su(parsed.value) ELSE parsed
    IN  IF processed.ok
        THEN [st EXCEPT
                !.cache = <<[allStats |-> processed.value.allStats,
                             implicitStats |-> processed.value.implicitStats,
                             timestamp |-> n]>>,
                !.searchIndex = <<processed.value.allStats>>,
                !.implicitIndex = IF Len(processed.value.implicitStats) > 0
                                  THEN <<processed.value.implicitStats>> ELSE Null,
                !.fetches[k].status = "fulfilled",
                !.fetches[k].value = <<processed.value.allStats>>]
        ELSE [st EXCEPT !.cache = Null, !.searchIndex = Null, !.implicitIndex = Null,
                        !.fetches[k].status = "rejected"]


(***************************************************************************)
(* stats.ts, class StatsManager and the functions around it (STC)          *)
(***************************************************************************)
isCacheReady_stc(st) == st.cache # Null /\ st.searchIndex # Null /\ st.implicitIndex # Null

canAttemptFetch_stc(st, n) == n - st.lastFetchAttempt >= CACHE_RETRY_INTERVAL

setupFetchPromise_stc(st, n) ==
    IF st.fetchPromise = NoPromise
    THEN Returned(StartFetch(st, n), "promise", Len(st.fetches) + 1)
    ELSE Returned(st, "promise", st.fetchPromise)

fetchStats_stc(st, n) ==
    IF isCacheReady_stc(st) THEN Returned(st, "list", st.cache[1])
    ELSE IF ~canAttemptFetch_stc(st, n) THEN Returned(st, "throw", Unavailable)
    ELSE setupFetchPromise_stc(st, n)

\* flattenApiResponse; group.entries.map throws on a group without entries
flattenApiResponse_stc(groups) ==
    IF \E g \in 1..Len(groups) : ~groups[g].ok THEN Err("TypeError")
    ELSE Ok(Concat([g \in 1..Len(groups) |->
                [i \in 1..Len(groups[g].entries) |->
                    StatOption(groups[g].entries[i].id, groups[g].entries[i].text,
                               groups[g].label)]]))

fetchStatsFromApi_stc(resp) ==
    IF resp.kind = "network" THEN Err("Failed to connect to stats API")
    ELSE IF resp.kind = "status" THEN Err("Stats API error")
    ELSE IF resp.kind = "badjson" THEN Err("Failed to parse stats response")
    ELSE IF resp.kind = "error" THEN Err("Stats API reported error")
    ELSE IF resp.kind = "shape" \/ Len(resp.result) = 0
    THEN Err("Invalid or empty stats data received from API")
    ELSE flattenApiResponse_stc(resp.result)

\* updateCache storing the list and leaving the indexes for later
updateCache_stc_listOnly(st, stats) == [st EXCEPT !.cache = <<stats>>]

updateCache_stc(st, stats) ==
    [st EXCEPT !.cache = <<stats>>,
               !.searchIndex = <<stats>>,
               !.implicitIndex = <<SelectSeq(stats, LAMBDA o : o.type = "Implicit")>>]

\* the function given to setupFetchPromise, from the answer of the endpoint on
settle_stc(st, n, k, resp) ==
    LET result == fetchStatsFromApi_stc(resp) IN
    IF result.ok
    THEN [updateCache_stc(st, result.value) EXCEPT !.fetches[k].status = "fulfilled",
                                                    !.fetches[k].value = <<result.value>>]
    ELSE [st EXCEPT !.fetches[k].status = "rejected"]

clearCache_stc(st) ==
    [st EXCEPT !.cache = Null, !.searchIndex = Null, !.implicitIndex = Null,
               !.lastFetchAttempt = 0, !.fetchPromise = NoPromise]

(***************************************************************************)
(* stats.ts, the module-level variant (STM); it has no implicit index      *)
(***************************************************************************)
fetchStats_stm(st, n) ==
    IF st.cache # Null /\ st.searchIndex # Null THEN Returned(st, "list", st.cache[1])
    ELSE IF n - st.lastFetchAttempt < CACHE_RETRY_INTERVAL /\ st.cache = Null
    THEN Returned(st, "throw", Unavailable)
    ELSE IF st.fetchPromise # NoPromise THEN Returned(st, "promise", st.fetchPromise)
    ELSE Returned(StartFetch(st, n), "promise", Len(st.fetches) + 1)

processStats_stm(resp) ==
    IF resp.kind = "network" THEN Err("fetch failed")
    ELSE IF resp.kind = "status" THEN Err("Failed to fetch stats")
    ELSE IF resp.kind = "badjson" THEN Err("SyntaxError")
    ELSE IF resp.kind = "error" THEN Err("API error")
    ELSE IF resp.kind = "shape" \/ Len(resp.result) = 0
    THEN Err("Invalid or empty stats data received from API")
    ELSE flattenApiResponse_stc(resp.result)

\* the async function of fetchStats from the answer of the endpoint on, its
\* catch and its finally included
settle_stm(st, n, k, resp) ==
    LET result == processStats_stm(resp) IN
    IF result.ok
    THEN [st EXCEPT !.cache = <<result.value>>, !.searchIndex = <<result.value>>,
                    !.fetchPromise = NoPromise,
                    !.fetches[k].status = "fulfilled",
                    !.fetches[k].value = <<result.value>>,
                    !.fetches[k].cleanup = FALSE]
    ELSE [st EXCEPT !.cache = Null, !.searchIndex = Null,
                    !.fetchPromise = NoPromise,
                    !.fetches[k].status = "rejected",
                    !.fetches[k].cleanup = FALSE]

clearStatsCache_stm(st) ==
    [st EXCEPT !.cache = Null, !.searchIndex = Null,
               !.lastFetchAttempt = 0, !.fetchPromise = NoPromise]

(***************************************************************************)
(* The operations on the catalog cache.  Each is the code that runs        *)
(* between two awaits; between two of them any other may run.              *)
(***************************************************************************)
FetchOf(st, n) ==
    IF impl = "SU" THEN fetchStats_su(st, n)
    ELSE IF impl = "STC" THEN fetchStats_stc(st, n)
    ELSE fetchStats_stm(st, n)

SettleOf(st, n, k, resp) ==
    IF impl = "SU" THEN doFetchStats_su(st, n, k, resp)
    ELSE IF impl = "STC" THEN settle_stc(st, n, k, resp)
    ELSE settle_stm(st, n, k, resp)

ClearOf(st) == IF impl = "STC" THEN clearCache_stc(st) ELSE clearStatsCache_stm(st)

\* a call of fetchStats, up to the point where it returns or awaits
FetchStats ==
    /\ LET r == FetchOf(CatalogState, now) IN
        /\ Len(r.st.fetches) <= MaxFetches
        /\ SetCatalog(r.st)
        /\ call' = CallResult("fetchStats", r.kind, r.promise, r.list, r.error,
                              IF call.op = "fetchStats" /\ call.kind = r.kind
                                 /\ call.promise = r.promise /\ call.list = r.list
                              THEN Min2(call.nth + 1, MaxWaiters) ELSE 1)
    /\ UNCHANGED <<impl, now>>
    /\ UNCHANGED limiter
    /\ UNCHANGED lookup
    /\ UNCHANGED component
    /\ UNCHANGED server
    /\ UNCHANGED history
    /\ UNCHANGED handlers

\* the endpoint answers request k
Settle(k, resp) ==
    /\ Pending(k)
    /\ SetCatalog(SettleOf(CatalogState, now, k, resp))
    /\ UNCHANGED <<impl, now, call>>
    /\ UNCHANGED limiter
    /\ UNCHANGED lookup
    /\ UNCHANGED component
    /\ UNCHANGED server
    /\ UNCHANGED history
    /\ UNCHANGED handlers

CleanupDue(k) == k \in DOMAIN fetches /\ fetches[k].status # "pending" /\ fetches[k].cleanup

\* Finally clearing fetchPromise only after a request that was fulfilled, as
\* a then callback would
Finally_fulfilled(k) ==
    /\ CleanupDue(k)
    /\ fetchPromise' = IF fetches[k].status = "fulfilled" THEN NoPromise ELSE fetchPromise
    /\ fetches' = [fetches EXCEPT ![k].cleanup = FALSE]
    /\ UNCHANGED <<impl, now, call, cache, searchIndex, implicitIndex, lastFetchAttempt>>
    /\ UNCHANGED limiter
    /\ UNCHANGED lookup
    /\ UNCHANGED component
    /\ UNCHANGED server
    /\ UNCHANGED history
    /\ UNCHANGED handlers

\* stat-utils.ts, lines 81-83, and stats.ts, lines 72-74: once the promise
\* of request k has settled, fetchPromise is cleared
Finally(k) ==
    /\ CleanupDue(k)
    /\ fetchPromise' = NoPromise
    /\ fetches' = [fetches EXCEPT ![k].cleanup = FALSE]
    /\ UNCHANGED <<impl, now, call, cache, searchIndex, implicitIndex, lastFetchAttempt>>
    /\ UNCHANGED limiter
    /\ UNCHANGED lookup
    /\ UNCHANGED component
    /\ UNCHANGED server
    /\ UNCHANGED history
    /\ UNCHANGED handlers

\* clearStatsCache
ClearStatsCache ==
    /\ impl \in {"STC", "STM"}
    /\ SetCatalog(ClearOf(CatalogState))
    /\ call' = CallResult("clearStatsCache", "void", NoPromise, Null, "", 1)
    /\ UNCHANGED <<impl, now>>
    /\ UNCHANGED limiter
    /\ UNCHANGED lookup
    /\ UNCHANGED component
    /\ UNCHANGED server
    /\ UNCHANGED history
    /\ UNCHANGED handlers

\* time passes; the handlers of a settled promise have run by then
Elapse(steps) ==
    /\ \A k \in DOMAIN fetches : ~CleanupDue(k)
    /\ \E d \in steps : Tick(d, MaxNowStats)

StatsTick == Elapse(StatsTimeSteps)

InitStats ==
    /\ impl \in {"SU", "STC", "STM"}
    /\ now = StartOfStats
    /\ tiers = <<>>
    /\ last = Result("new", TRUE, 0, 0)
    /\ restrictEnd = 0
    /\ denial = Null
    /\ periods = Null
    /\ remote = Null
    /\ twin = Null
    /\ until = <<>>
    /\ calls = [inside |-> 0, after |-> 0]
    /\ pc = [r \in Requests |-> "idle"]
    /\ granted = <<>>
    /\ base = <<>>
    /\ oneSlot = [r \in Requests |-> FALSE]
    /\ InitCatalog
    /\ InitLookup
    /\ InitComponent
    /\ InitServer

NextStats ==
    \/ FetchStats
    \/ \E k \in DOMAIN fetches, resp \in Responses : Settle(k, resp)
    \/ \E k \in DOMAIN fetches : Finally(k)
    \/ StatsTick

SpecStats == InitStats /\ [][NextStats]_vars


\* C12: a fetchStats call made while a request to the stats endpoint is
\* pending sends no request, and one made with no snapshot and no stored
\* promise either is refused or sends exactly one
SingleFlight ==
    [][FetchStats =>
        /\ (PendingFetches # {} => fetches' = fetches)
        /\ (cache = Null /\ fetchPromise = NoPromise /\ call'.kind = "promise"
                => Len(fetches') = Len(fetches) + 1)
        /\ Cardinality({k \in DOMAIN fetches' : fetches'[k].status = "pending"}) <= 1]_vars

C12_Witness ==
    /\ Len(fetches) = 1
    /\ Pending(1)
    /\ cache = Null
    /\ call.op = "fetchStats" /\ call.kind = "promise" /\ call.promise = 1
    /\ call.nth >= 3

\* C13: a fetchStats call made while a request is pending returns the promise
\* of that request
SharedOutcome ==
    [][FetchStats /\ PendingFetches # {} =>
        call'.kind = "promise" /\ call'.promise \in PendingFetches]_vars

\* the list of the snapshot, when a valid one exists
ValidSnapshot ==
    IF impl = "SU" THEN cache # Null /\ now - cache[1].timestamp < CACHE_TTL
    ELSE IF impl = "STC" THEN cache # Null /\ searchIndex # Null /\ implicitIndex # Null
    ELSE cache # Null /\ searchIndex # Null

SnapshotList == IF impl = "SU" THEN cache[1].allStats ELSE cache[1]

\* C14: a fetchStats call made while a valid snapshot exists sends no request
\* and returns the list of that snapshot, as such or as the fulfilled promise
\* of the request that stored it
SnapshotServed ==
    [][FetchStats /\ ValidSnapshot =>
        /\ fetches' = fetches
        /\ \/ call'.kind = "list" /\ call'.list = <<SnapshotList>>
           \/ /\ call'.kind = "promise"
              /\ fetches[call'.promise].status = "fulfilled"
              /\ fetches[call'.promise].value = <<SnapshotList>>]_vars

C14_Witness ==
    /\ call.op = "fetchStats" /\ call.kind = "list"
    /\ impl = "SU"
    /\ cache # Null /\ call.list = <<cache[1].allStats>>
    /\ now > cache[1].timestamp
    /\ fetchPromise = NoPromise

\* a request started no earlier than 60 s after the one before it, unless
\* that one stored a snapshot
RequestsSpaced ==
    \A k \in DOMAIN fetches :
        k + 1 \in DOMAIN fetches =>
            \/ fetches[k].status = "fulfilled"
            \/ fetches[k + 1].start - fetches[k].start >= CACHE_RETRY_INTERVAL

\* C15 as stated: with no snapshot, a fetchStats call made less than 60 s
\* after the start of the previous request is refused and sends no request
ThrottledWithoutSnapshot ==
    [][FetchStats /\ cache = Null /\ Len(fetches) > 0
         /\ now - fetches[Len(fetches)].start < CACHE_RETRY_INTERVAL
        => call'.kind = "throw" /\ call'.error = Unavailable /\ fetches' = fetches]_vars

\* C15: with no snapshot and no stored promise of a request, a fetchStats
\* call made less than 60 s after the start of the previous request is
\* refused and sends no request; and two consecutive requests with no
\* snapshot stored between them start at least 60 s apart
ThrottledWhenIdle ==
    [][/\ FetchStats /\ cache = Null /\ fetchPromise = NoPromise /\ Len(fetches) > 0
          /\ now - fetches[Len(fetches)].start < CACHE_RETRY_INTERVAL
         => /\ call'.kind = "throw" /\ call'.error = Unavailable
            /\ fetches' = fetches
       /\ RequestsSpaced']_vars

C15_Witness ==
    /\ impl = "SU"
    /\ call.op = "fetchStats" /\ call.kind = "throw"
    /\ cache = Null /\ fetchPromise = NoPromise
    /\ Len(fetches) = 2
    /\ fetches[2].status = "rejected"
    /\ now - fetches[2].start < CACHE_RETRY_INTERVAL

\* C16: when the endpoint's answer is a failure of any kind, the promise of
\* the request is rejected and no snapshot exists afterwards
FailureClearsSnapshot ==
    [][\A k \in DOMAIN fetches : \A resp \in FailingResponses :
        Settle(k, resp)
        => /\ fetches'[k].status = "rejected"
           /\ cache' = Null /\ searchIndex' = Null /\ implicitIndex' = Null]_vars

C16_Witness ==
    /\ impl = "SU"
    /\ Len(fetches) = 2
    /\ fetches[1].status = "fulfilled"
    /\ fetches[2].status = "rejected"
    /\ fetches[2].start - fetches[1].start >= CACHE_TTL
    /\ cache = Null


(***************************************************************************)
(* SpecCache: the catalog cache with clearStatsCache among its operations. *)
(***************************************************************************)
\* time passes in steps of the snapshot's lifetime, which is also more than
\* the retry interval
CacheTick == Elapse({CACHE_TTL})

NextCache ==
    \/ FetchStats
    \/ \E k \in DOMAIN fetches, resp \in Responses : Settle(k, resp)
    \/ \E k \in DOMAIN fetches : Finally(k)
    \/ ClearStatsCache
    \/ CacheTick

SpecCache == InitStats /\ [][NextCache]_vars

UpperCase == <<"A", "B", "C", "D", "E", "F", "G", "H", "I", "J", "K", "L", "M", "N", "O", "P", "Q", "R", "S", "T", "U", "V", "W", "X", "Y", "Z">>

LowerCase == <<"a", "b", "c", "d", "e", "f", "g", "h", "i", "j", "k", "l", "m", "n", "o", "p", "q", "r", "s", "t", "u", "v", "w", "x", "y", "z">>

toLowerCase(s) ==
    [i \in 1..Len(s) |->
        IF \E u \in 1..Len(UpperCase) : UpperCase[u] = s[i]
        THEN LowerCase[CHOOSE u \in 1..Len(UpperCase) : UpperCase[u] = s[i]]
        ELSE s[i]]

\* the characters of s at the positions in keep, in order
Pick(s, keep) ==
    LET F[i \in 0..Len(s)] ==
            IF i = 0 THEN <<>>
            ELSE IF i \in keep THEN Append(F[i - 1], s[i]) ELSE F[i - 1]
    IN  F[Len(s)]

\* .replace(/\+(?=\d)/g, '')
removePlusBeforeDigit(s) ==
    Pick(s, {i \in 1..Len(s) : ~(s[i] = "+" /\ i < Len(s) /\ IsDigit(s[i + 1]))})

\* .replace(/\[|\]/g, '')
removeBrackets(s) == Pick(s, {i \in 1..Len(s) : s[i] \notin {"[", "]"}})

\* .replace(/\|.*?(?=\s|$)/g, ''): a pipe and what follows it up to the next
\* whitespace or the end
removePipeSections(s) ==
    Pick(s, {i \in 1..Len(s) :
                ~\E j \in 1..i : s[j] = "|" /\ \A k \in j..i : ~IsSpace(s[k])})

\* the first position from i on that holds no digit
DigitsEnd(s, i) ==
    CHOOSE j \in i..(Len(s) + 1) :
        /\ j = Len(s) + 1 \/ ~IsDigit(s[j])
        /\ \A k \in i..(j - 1) : IsDigit(s[k])

RECURSIVE replaceNumbersFrom(_, _)
replaceNumbersFrom(s, i) ==
    IF i > Len(s) THEN <<>>
    ELSE LET signed == s[i] \in {"+", "-"} /\ i < Len(s) /\ IsDigit(s[i + 1])
         IN  IF signed \/ IsDigit(s[i])
             THEN LET e1 == DigitsEnd(s, IF signed THEN i + 1 ELSE i)
                      e2 == IF e1 <= Len(s) /\ s[e1] = "." THEN DigitsEnd(s, e1 + 1) ELSE e1
                  IN  <<"#">> \o replaceNumbersFrom(s, e2)
             ELSE <<s[i]>> \o replaceNumbersFrom(s, i + 1)

\* .replace(/[+-]?\d+\.?\d*/g, '#')
replaceNumbers(s) == replaceNumbersFrom(s, 1)

\* .replace(/\s+/g, ' ')
collapseWhitespace(s) ==
    LET kept == Pick(s, {j \in 1..Len(s) : ~IsSpace(s[j]) \/ j = 1 \/ ~IsSpace(s[j - 1])})
    IN  [i \in 1..Len(kept) |-> IF IsSpace(kept[i]) THEN " " ELSE kept[i]]

ImplicitMarker == <<"(", "i", "m", "p", "l", "i", "c", "i", "t", ")">>

StartsWith(s, p) == Len(s) >= Len(p) /\ SubSeq(s, 1, Len(p)) = p

EndsWith(s, p) == Len(s) >= Len(p) /\ SubSeq(s, Len(s) - Len(p) + 1, Len(s)) = p

\* .replace(/\s*\(implicit\)$/, '')
removeImplicitAtEnd(s) ==
    IF EndsWith(s, ImplicitMarker)
    THEN TrimEnd(SubSeq(s, 1, Len(s) - Len(ImplicitMarker)))
    ELSE s

\* .replace(/\s*\(implicit\)\s*$/i, '')
removeImplicitBeforeSpaces(s) ==
    IF EndsWith(TrimEnd(s), ImplicitMarker)
    THEN TrimEnd(SubSeq(s, 1, Len(TrimEnd(s)) - Len(ImplicitMarker)))
    ELSE s

\* .replace(/^adds /, '') and the like
removePrefix(s, p) == IF StartsWith(s, p) THEN SubSeq(s, Len(p) + 1, Len(s)) ELSE s

Adds == <<"a", "d", "d", "s", " ">>

Gain == <<"g", "a", "i", "n", " ">>

You == <<"y", "o", "u", " ">>

removeCommonPrefixes(s) == removePrefix(removePrefix(removePrefix(s, Adds), Gain), You)

\* the steps all three functions share, up to the whitespace
commonSteps(text) ==
    collapseWhitespace(replaceNumbers(removePipeSections(removeBrackets(
        removePlusBeforeDigit(toLowerCase(text))))))

\* stat-utils.ts
normalizeStatText_su(text) ==
    trim(removeCommonPrefixes(removeImplicitAtEnd(commonSteps(text))))

\* stats.ts, lines 195-210
normalizeStatText_stc(text) ==
    trim(removeImplicitBeforeSpaces(removeCommonPrefixes(commonSteps(text))))

normalizeStatText(text) ==
    IF impl = "SU" THEN normalizeStatText_su(text) ELSE normalizeStatText_stc(text)

(***************************************************************************)
(* The texts the functions are applied to: up to MaxPieces pieces, one     *)
(* after the other.                                                        *)
(***************************************************************************)
MaxPieces == 3

MaxApplications == 2

Pieces ==
    {Adds, Gain, You, ImplicitMarker,
     <<"I", "m", "p", "l", "i", "c", "i", "t">>,
     <<" ">>,
     <<"x">>,
     <<"y">>,
     <<"+", "1">>,
     <<"[", "a", "|", "b", "]">>}

Texts == {Concat(ps) : ps \in UNION {[1..n -> Pieces] : n \in 0..MaxPieces}}

\* the state of a process that has neither used the limiter nor loaded the
\* catalog
InitIdle ==
    /\ now = StartOfStats
    /\ tiers = <<>>
    /\ last = Result("new", TRUE, 0, 0)
    /\ restrictEnd = 0
    /\ denial = Null
    /\ periods = Null
    /\ remote = Null
    /\ twin = Null
    /\ until = <<>>
    /\ calls = [inside |-> 0, after |-> 0]
    /\ pc = [r \in Requests |-> "idle"]
    /\ granted = <<>>
    /\ base = <<>>
    /\ oneSlot = [r \in Requests |-> FALSE]

(***************************************************************************)
(* SpecNormalize: normalizeStatText applied to a text, and again to what   *)
(* it returned.                                                            *)
(***************************************************************************)
NormalizeStatText ==
    /\ applied < MaxApplications
    /\ statText' = normalizeStatText(statText)
    /\ applied' = applied + 1
    /\ UNCHANGED <<impl, now, resolved>>
    /\ UNCHANGED limiter
    /\ UNCHANGED history
    /\ UNCHANGED handlers
    /\ UNCHANGED catalog
    /\ UNCHANGED component
    /\ UNCHANGED server

InitNormalize ==
    /\ impl \in {"SU", "STC"}
    /\ InitIdle
    /\ InitComponent
    /\ InitServer
    /\ InitCatalog
    /\ statText \in Texts
    /\ applied = 0
    /\ resolved = Found("", "new")

NextNormalize == NormalizeStatText

SpecNormalize == InitNormalize /\ [][NextNormalize]_vars

\* C20: normalizeStatText applied to a text it returned returns that text
NormalizeIdempotent ==
    [][NormalizeStatText /\ applied >= 1 => statText' = statText]_vars


(***************************************************************************)
(* findStatId.  The answer of the Fuse index is an input: fuzzy = 0 when   *)
(* it has no result under the threshold, else the position in the indexed  *)
(* list of the entry it ranks first.                                       *)
(***************************************************************************)
Contains(s, p) == \E i \in 1..(Len(s) - Len(p) + 1) : SubSeq(s, i, i + Len(p) - 1) = p

ImplicitWord == <<"i", "m", "p", "l", "i", "c", "i", "t">>

\* what fuseInstance.search(...)[0] yields, score below the threshold
FuzzyMatch(indexed, fuzzy) ==
    IF fuzzy = 0 \/ fuzzy > Len(indexed) THEN Found("", "none")
    ELSE Found(indexed[fuzzy].id, "fuzzy")

\* stat-utils.ts: getSearchConfiguration serving the full maps to every search
getSearchConfiguration_su_all(st, searchingForImplicit) ==
    [pool |-> st.cache[1].allStats, indexed |-> st.searchIndex[1]]

getSearchConfiguration_su(st, searchingForImplicit) ==
    IF searchingForImplicit /\ st.implicitIndex # Null
    THEN [pool |-> st.cache[1].implicitStats, indexed |-> st.implicitIndex[1]]
    ELSE [pool |-> st.cache[1].allStats, indexed |-> st.searchIndex[1]]

\* normalizedMap.get(cleanInput): of the entries set under one key the last
\* one stays in the Map
mapGet_su(pool, cleanInput) ==
    LET hits == {i \in 1..Len(pool) : normalizeStatText_su(pool[i].text) = cleanInput
                                       /\ normalizeStatText_su(pool[i].text) # <<>>}
    IN  IF hits = {} THEN Null
        ELSE <<pool[CHOOSE i \in hits : \A j \in hits : j <= i]>>

findStatId_su(st, text, fuzzy) ==
    IF text = <<>> THEN Found("", "none")
    ELSE IF st.cache = Null THEN Found("", "none")
    ELSE LET cleanInput == normalizeStatText_su(text)
             searchingForImplicit == Contains(toLowerCase(text), ImplicitWord)
             searchConfig == getSearchConfiguration_su(st, searchingForImplicit)
             exactMatch == mapGet_su(searchConfig.pool, cleanInput)
         IN  IF cleanInput = <<>> THEN Found("", "none")
             ELSE IF exactMatch # Null THEN Found(exactMatch[1].id, "exact")
             ELSE FuzzyMatch(searchConfig.indexed, fuzzy)

\* the first position from i on that holds no whitespace
SpacesEnd(s, i) ==
    CHOOSE j \in i..(Len(s) + 1) :
        /\ j = Len(s) + 1 \/ ~IsSpace(s[j])
        /\ \A k \in i..(j - 1) : IsSpace(s[k])

WordAt(s, j, word) ==
    /\ j + Len(word) - 1 <= Len(s)
    /\ toLowerCase(SubSeq(s, j, j + Len(word) - 1)) = word

\* s.replace(new RegExp('\\s*' + word + (trailing ? '\\s*' : ''), 'gi'), with), from
\* position i on
RECURSIVE replaceWordFrom(_, _, _, _, _)
replaceWordFrom(s, i, word, trailing, with) ==
    IF i > Len(s) THEN <<>>
    ELSE IF WordAt(s, SpacesEnd(s, i), word)
    THEN LET e == SpacesEnd(s, i) + Len(word) IN
         with \o replaceWordFrom(s, IF trailing THEN SpacesEnd(s, e) ELSE e,
                                 word, trailing, with)
    ELSE <<s[i]>> \o replaceWordFrom(s, i + 1, word, trailing, with)

\* stats.ts: analyzeSearchContext
analyzeSearchContext_stc(text) ==
    LET cleanedText == replaceWordFrom(replaceWordFrom(text, 1, ImplicitMarker, FALSE, <<>>),
                                       1, ImplicitWord, TRUE, <<" ">>)
    IN  [normalizedTerm |-> normalizeStatText_stc(cleanedText),
         isImplicitOnly |-> Contains(toLowerCase(text), ImplicitMarker)]

\* stats.ts: findExactMatch; exactMatch?.id || null
findExactMatch_stc(normalizedInput, stats) ==
    LET hits == {i \in 1..Len(stats) : normalizeStatText_stc(stats[i].text) = normalizedInput}
    IN  IF hits = {} THEN ""
        ELSE stats[CHOOSE i \in hits : \A j \in hits : i <= j].id

searchStats_stc(st, text, fuzzy) ==
    IF st.cache = Null \/ st.searchIndex = Null \/ st.implicitIndex = Null
    THEN Found("", "none")
    ELSE LET context == analyzeSearchContext_stc(text)
             relevantStats == IF context.isImplicitOnly
                              THEN SelectSeq(st.cache[1], LAMBDA o : o.type = "Implicit")
                              ELSE st.cache[1]
             indexed == IF context.isImplicitOnly THEN st.implicitIndex[1]
                        ELSE st.searchIndex[1]
             exactMatch == findExactMatch_stc(context.normalizedTerm, relevantStats)
         IN  IF exactMatch # "" THEN Found(exactMatch, "exact")
             ELSE FuzzyMatch(indexed, fuzzy)

findStatId_stc(st, text, fuzzy) ==
    IF text = <<>> THEN Found("", "none")
    ELSE IF ~isCacheReady_stc(st) THEN Found("", "none")
    ELSE searchStats_stc(st, text, fuzzy)

(***************************************************************************)
(* SpecLookup: findStatId on a loaded catalog, or before any was loaded.   *)
(***************************************************************************)
MaxEntries == 3

MaxWords == 2

XText == <<"x">>

YText == <<"+", "#", " ", "t", "o", " ", "y">>

ImplicitXText == <<"I", "m", "p", "l", "i", "c", "i", "t", " ", "x">>

AddsXText == <<"A", "d", "d", "s", " ", "x">>

Words ==
    {XText, ImplicitXText, Adds,
     <<"+", "1", " ", "t", "o", " ", "y">>,
     <<" ", "(", "i", "m", "p", "l", "i", "c", "i", "t", ")">>,
     <<" ">>}

StatTexts == {Concat(ps) : ps \in UNION {[1..n -> Words] : n \in 0..MaxWords}}

LookupCatalogs ==
    {<<StatGroup("Explicit", <<StatEntry("e1", XText, TRUE), StatEntry("e2", ImplicitXText, TRUE)>>, TRUE),
       StatGroup("Implicit", <<StatEntry("i1", XText, TRUE), StatEntry("i2", YText, TRUE)>>, TRUE)>>,
     <<StatGroup("Explicit", <<StatEntry("e1", XText, TRUE), StatEntry("e2", YText, TRUE),
                               StatEntry("e3", XText, TRUE)>>, TRUE)>>,
     <<StatGroup("Implicit", <<StatEntry("i1", YText, TRUE)>>, TRUE),
       StatGroup("Explicit", <<StatEntry("e1", AddsXText, TRUE), StatEntry("e2", YText, TRUE)>>, TRUE)>>}

EmptyCatalog ==
    [cache |-> Null, searchIndex |-> Null, implicitIndex |-> Null,
     lastFetchAttempt |-> 0, fetchPromise |-> NoPromise, fetches |-> <<>>]

\* the cache after one fetchStats call whose request was answered with groups
Loaded(groups) ==
    [SettleOf(StartFetch(EmptyCatalog, StartOfStats), StartOfStats, 1, Response("body", groups))
        EXCEPT !.fetchPromise = NoPromise, !.fetches[1].cleanup = FALSE]

FindStatIdOf(st, text, fuzzy) ==
    IF impl = "SU" THEN findStatId_su(st, text, fuzzy) ELSE findStatId_stc(st, text, fuzzy)

FindStatId ==
    /\ \E fuzzy \in 0..MaxEntries : resolved' = FindStatIdOf(CatalogState, statText, fuzzy)
    /\ UNCHANGED <<impl, now, statText, applied>>
    /\ UNCHANGED limiter
    /\ UNCHANGED history
    /\ UNCHANGED handlers
    /\ UNCHANGED catalog
    /\ UNCHANGED component
    /\ UNCHANGED server

InitLookupOf ==
    /\ impl \in {"SU", "STC"}
    /\ InitIdle
    /\ InitComponent
    /\ InitServer
    /\ \E st \in {EmptyCatalog} \cup {Loaded(groups) : groups \in LookupCatalogs} :
        /\ cache = st.cache
        /\ searchIndex = st.searchIndex
        /\ implicitIndex = st.implicitIndex
        /\ lastFetchAttempt = st.lastFetchAttempt
        /\ fetchPromise = st.fetchPromise
        /\ fetches = st.fetches
    /\ call = CallResult("new", "void", NoPromise, Null, "", 1)
    /\ statText \in StatTexts
    /\ applied = 0
    /\ resolved = Found("", "new")

NextLookup == FindStatId

SpecLookup == InitLookupOf /\ [][NextLookup]_vars

\* the stat list of the loaded catalog and its entries of category Implicit
AllStats == IF impl = "SU" THEN cache[1].allStats ELSE cache[1]

ImplicitStats == SelectSeq(AllStats, LAMBDA o : o.type = "Implicit")

\* the pool findStatId selects for statText
SelectedPool ==
    IF impl = "SU"
    THEN IF Contains(toLowerCase(statText), ImplicitWord) /\ implicitIndex # Null
         THEN ImplicitStats ELSE AllStats
    ELSE IF Contains(toLowerCase(statText), ImplicitMarker) THEN ImplicitStats ELSE AllStats

ExactEntries ==
    LET pool == SelectedPool
        normalized == normalizeStatText(statText)
    IN  {i \in 1..Len(pool) : normalizeStatText(pool[i].text) = normalized}

\* C18: when the selected pool holds an entry whose normalized text equals
\* the normalized input, findStatId returns the id of such an entry, found on
\* the exact path
ExactMatchFirst ==
    [][FindStatId /\ statText # <<>> /\ cache # Null /\ ExactEntries # {}
        => /\ resolved'.path = "exact"
           /\ \E i \in ExactEntries : SelectedPool[i].id = resolved'.id]_vars

\* C19: on a loaded catalog with entries of category Implicit, findStatId on
\* a text containing "(implicit)" returns null or the id of one of them
ImplicitOnly ==
    [][FindStatId /\ cache # Null /\ Len(ImplicitStats) > 0
         /\ Contains(toLowerCase(statText), ImplicitMarker)
        => \/ resolved'.id = ""
           \/ \E i \in 1..Len(ImplicitStats) : ImplicitStats[i].id = resolved'.id]_vars

C19_Witness ==
    /\ cache # Null
    /\ Contains(statText, ImplicitMarker)
    /\ resolved.path = "fuzzy"
    /\ \E i \in 1..Len(ImplicitStats) : ImplicitStats[i].id = resolved.id
    /\ \E i \in 1..Len(AllStats) :
        /\ AllStats[i].type = "Explicit"
        /\ normalizeStatText(AllStats[i].text) = normalizeStatText(statText)


(***************************************************************************)
(* ItemChecker.svelte and part_016: parseItemText, over the pasted text as *)
(* a sequence of characters.                                               *)
(***************************************************************************)
ItemClassPrefix == <<"I", "t", "e", "m", " ", "C", "l", "a", "s", "s", ":">>

ItemLevelPrefix == <<"I", "t", "e", "m", " ", "L", "e", "v", "e", "l", ":">>

ItemLevelPattern == <<"I", "t", "e", "m", " ", "L", "e", "v", "e", "l", ":", " ">>

RarityPrefix == <<"R", "a", "r", "i", "t", "y", ":">>

Separator == <<"-", "-", "-", "-", "-", "-", "-", "-">>

Unique == <<"U", "n", "i", "q", "u", "e">>

StatKeywords ==
    {<<"t", "o", " ">>, <<"i", "n", "c", "r", "e", "a", "s", "e", "d", " ">>,
     <<"r", "e", "d", "u", "c", "e", "d", " ">>, <<"R", "e", "c", "o", "v", "e", "r">>}

\* text.split('\n').map((line) => line.trim()).filter(Boolean)
itemLines(text) ==
    LET raw == split(text, "\n") IN
    FilterNonEmpty([i \in 1..Len(raw) |-> trim(raw[i])])

\* line.match(/Item Level: (\d+)/): the digits of the first place where the
\* pattern matches, <<>> when there is none
itemLevelMatch(line) ==
    LET at == {i \in 1..Len(line) :
                 /\ i + Len(ItemLevelPattern) <= Len(line)
                 /\ SubSeq(line, i, i + Len(ItemLevelPattern) - 1) = ItemLevelPattern
                 /\ IsDigit(line[i + Len(ItemLevelPattern)])}
    IN  IF at = {} THEN <<>>
        ELSE LET first == CHOOSE i \in at : \A j \in at : i <= j
                 from == first + Len(ItemLevelPattern)
             IN  SubSeq(line, from, DigitsEnd(line, from) - 1)

\* the test that makes a line after the separator a stat line
isStatLine(line) ==
    \/ \E i \in 1..Len(line) : IsDigit(line[i])
    \/ \E k \in StatKeywords : Contains(line, k)

NoItem ==
    [itemClass |-> Null, itemLevel |-> Null, stats |-> <<>>, rarity |-> Null,
     name |-> Null, baseType |-> Null, foundItemLevel |-> FALSE, foundStats |-> FALSE]

\* parseItemText collecting stat lines as soon as the item level was found
parseLine_noSeparator(item, lines, i) ==
    LET line == lines[i] IN
    IF StartsWith(line, ItemClassPrefix)
    THEN [item EXCEPT !.itemClass = <<trim(SubSeq(line, Len(ItemClassPrefix) + 1, Len(line)))>>]
    ELSE IF StartsWith(line, ItemLevelPrefix)
    THEN IF itemLevelMatch(line) # <<>>
         THEN [item EXCEPT !.itemLevel = parseInt(itemLevelMatch(line)),
                           !.foundItemLevel = TRUE]
         ELSE item
    ELSE IF StartsWith(line, RarityPrefix)
    THEN LET rarity == trim(SubSeq(line, Len(RarityPrefix) + 1, Len(line))) IN
         IF rarity = Unique /\ i + 2 <= Len(lines)
         THEN [item EXCEPT !.rarity = <<rarity>>,
                           !.name = <<trim(lines[i + 1])>>,
                           !.baseType = <<trim(lines[i + 2])>>]
         ELSE [item EXCEPT !.rarity = <<rarity>>]
    ELSE IF item.foundItemLevel /\ ~Contains(line, Separator)
    THEN IF isStatLine(line) THEN [item EXCEPT !.stats = Append(@, line)] ELSE item
    ELSE item

\* the body of the for loop of parseItemText, for lines[i]
parseLine(item, lines, i) ==
    LET line == lines[i] IN
    IF StartsWith(line, ItemClassPrefix)
    THEN [item EXCEPT !.itemClass = <<trim(SubSeq(line, Len(ItemClassPrefix) + 1, Len(line)))>>]
    ELSE IF StartsWith(line, ItemLevelPrefix)
    THEN IF itemLevelMatch(line) # <<>>
         THEN [item EXCEPT !.itemLevel = parseInt(itemLevelMatch(line)),
                           !.foundItemLevel = TRUE]
         ELSE item
    ELSE IF StartsWith(line, RarityPrefix)
    THEN LET rarity == trim(SubSeq(line, Len(RarityPrefix) + 1, Len(line))) IN
         IF rarity = Unique /\ i + 2 <= Len(lines)
         THEN [item EXCEPT !.rarity = <<rarity>>,
                           !.name = <<trim(lines[i + 1])>>,
                           !.baseType = <<trim(lines[i + 2])>>]
         ELSE [item EXCEPT !.rarity = <<rarity>>]
    ELSE IF item.foundItemLevel /\ ~item.foundStats
    THEN IF Contains(line, Separator) THEN [item EXCEPT !.foundStats = TRUE] ELSE item
    ELSE IF item.foundStats /\ ~Contains(line, Separator)
    THEN IF isStatLine(line) THEN [item EXCEPT !.stats = Append(@, line)] ELSE item
    ELSE item

RECURSIVE parseLines(_, _, _)
parseLines(item, lines, i) ==
    IF i > Len(lines) THEN item ELSE parseLines(parseLine(item, lines, i), lines, i + 1)

parseItemText(text) == parseLines(NoItem, itemLines(text), 1)

\* a number as parseFloat reads it: sign, integer part, and the decimals
\* without trailing zeros
Number(negative, whole, decimals) ==
    [negative |-> negative, whole |-> whole, decimals |-> decimals]

RECURSIVE dropTrailingZeros(_)
dropTrailingZeros(digits) ==
    IF digits # <<>> /\ digits[Len(digits)] = "0"
    THEN dropTrailingZeros(SubSeq(digits, 1, Len(digits) - 1))
    ELSE digits

\* extractValue finding no number in any text
extractValue_noMatch(text) == Number(FALSE, 0, <<>>)

\* statText.match(/([+-]?\d+\.?\d*)/g)[0], read by parseFloat; 0 without a match
extractValue(text) ==
    LET starts == {i \in 1..Len(text) :
                     \/ IsDigit(text[i])
                     \/ text[i] \in {"+", "-"} /\ i < Len(text) /\ IsDigit(text[i + 1])}
    IN  IF starts = {} THEN Number(FALSE, 0, <<>>)
        ELSE LET first == CHOOSE i \in starts : \A j \in starts : i <= j
                 from == IF IsDigit(text[first]) THEN first ELSE first + 1
                 e1 == DigitsEnd(text, from)
                 e2 == IF e1 <= Len(text) /\ text[e1] = "." THEN DigitsEnd(text, e1 + 1) ELSE e1
             IN  Number(text[first] = "-",
                        DigitsValue(SubSeq(text, from, e1 - 1), 0, FALSE)[1],
                        IF e2 > e1 THEN dropTrailingZeros(SubSeq(text, e1 + 1, e2 - 1)) ELSE <<>>)


(***************************************************************************)
(* handleSearch.  findStatId is an input here: resolving is the set of     *)
(* stat lines it finds an id for.                                          *)
(***************************************************************************)
Boots == <<"B", "o", "o", "t", "s">>

Rings == <<"R", "i", "n", "g", "s">>

\* constants/itemTypes: the item classes the trade site has a category for
ITEM_CLASS_MAP == (Boots :> "armour.boots") @@ (Rings :> "accessory.ring")

LifeLine == <<"+", "2", "0", " ", "t", "o", " ", "m", "a", "x", "i", "m", "u", "m", " ", "L", "i", "f", "e">>

ArmourLine == <<"1", "5", "%", " ", "i", "n", "c", "r", "e", "a", "s", "e", "d", " ", "A", "r", "m", "o", "u", "r">>

StatIds == (LifeLine :> "stat.life") @@ (ArmourLine :> "stat.armour")

\* findStatId(stat), "" for null
statIdOf(stat, resolving) == IF stat \in resolving THEN StatIds[stat] ELSE ""

Query(name, type, filters, category, ilvl) ==
    [name |-> name, type |-> type, filters |-> filters, category |-> category, ilvl |-> ilvl]

Outcome(message, isLoading, built, asked, next) ==
    [error |-> message, loading |-> isLoading, query |-> built, calls |-> asked, next |-> next]

\* type_filters.filters.category and .ilvl, after the undefined ones are dropped
categoryOf(item) ==
    IF item.itemClass # Null /\ item.itemClass[1] # <<>>
    THEN <<ITEM_CLASS_MAP[item.itemClass[1]]>> ELSE Null

ilvlOf(item, include) ==
    IF item.itemLevel # Null /\ item.itemLevel[1] # 0 /\ include THEN item.itemLevel ELSE Null

isUniqueBranch(item) ==
    /\ item.rarity = <<Unique>>
    /\ item.name # Null /\ item.name[1] # <<>>
    /\ item.baseType # Null /\ item.baseType[1] # <<>>

\* parsedItem.stats.map(...): one findStatId call per stat line
askedOf(item, resolving) ==
    [i \in 1..Len(item.stats) |->
        [stat |-> item.stats[i], id |-> statIdOf(item.stats[i], resolving)]]

\* ... .filter(filter !== null), with extractValue for the lines that resolved
statFiltersOf(asked) ==
    LET found == SelectSeq(asked, LAMBDA a : a.id # "") IN
    [i \in 1..Len(found) |-> [id |-> found[i].id, min |-> extractValue(found[i].stat)]]

\* handleSearch calling findStatId for the stat lines of a unique item as well
handleSearch_resolvingUniques(text, loaded, include, wasLoading, resolving) ==
    LET item == parseItemText(text)
        asked == askedOf(item, resolving)
    IN
    IF trim(text) = <<>>
    THEN Outcome("Please paste an item first", wasLoading, Null, <<>>, "idle")
    ELSE IF ~loaded
    THEN Outcome("Item stats database is not ready yet. Please try again in a moment.",
                 wasLoading, Null, <<>>, "idle")
    ELSE IF item.itemClass # Null /\ item.itemClass[1] # <<>>
            /\ item.itemClass[1] \notin DOMAIN ITEM_CLASS_MAP
    THEN Outcome("Item type is not supported yet", FALSE, Null, <<>>, "idle")
    ELSE IF isUniqueBranch(item)
    THEN Outcome("", TRUE,
                 <<Query(item.name, item.baseType, statFiltersOf(asked), categoryOf(item),
                         ilvlOf(item, include))>>,
                 asked, "delay")
    ELSE IF Len(statFiltersOf(asked)) = 0
    THEN Outcome("No valid stats found to search for", FALSE, Null, asked, "idle")
    ELSE Outcome("", TRUE,
                 <<Query(Null, Null, statFiltersOf(asked), categoryOf(item),
                         ilvlOf(item, include))>>,
                 asked, "delay")

\* handleSearch keeping an entry for every stat line, resolved or not
handleSearch_unfiltered(text, loaded, include, wasLoading, resolving) ==
    LET item == parseItemText(text)
        asked == askedOf(item, resolving)
    IN
    IF trim(text) = <<>>
    THEN Outcome("Please paste an item first", wasLoading, Null, <<>>, "idle")
    ELSE IF ~loaded
    THEN Outcome("Item stats database is not ready yet. Please try again in a moment.",
                 wasLoading, Null, <<>>, "idle")
    ELSE IF item.itemClass # Null /\ item.itemClass[1] # <<>>
            /\ item.itemClass[1] \notin DOMAIN ITEM_CLASS_MAP
    THEN Outcome("Item type is not supported yet", FALSE, Null, <<>>, "idle")
    ELSE IF isUniqueBranch(item)
    THEN Outcome("", TRUE,
                 <<Query(item.name, item.baseType, <<>>, categoryOf(item), ilvlOf(item, include))>>,
                 <<>>, "delay")
    ELSE IF Len(statFiltersOf(asked)) = 0
    THEN Outcome("No valid stats found to search for", FALSE, Null, asked, "idle")
    ELSE Outcome("", TRUE,
                 <<Query(Null, Null,
                         [i \in 1..Len(asked) |->
                             [id |-> asked[i].id, min |-> extractValue(asked[i].stat)]],
                         categoryOf(item), ilvlOf(item, include))>>,
                 asked, "delay")

\* handleSearch sending a query whose stat lines all failed to resolve
handleSearch_emptyAllowed(text, loaded, include, wasLoading, resolving) ==
    LET item == parseItemText(text)
        asked == askedOf(item, resolving)
    IN
    IF trim(text) = <<>>
    THEN Outcome("Please paste an item first", wasLoading, Null, <<>>, "idle")
    ELSE IF ~loaded
    THEN Outcome("Item stats database is not ready yet. Please try again in a moment.",
                 wasLoading, Null, <<>>, "idle")
    ELSE IF item.itemClass # Null /\ item.itemClass[1] # <<>>
            /\ item.itemClass[1] \notin DOMAIN ITEM_CLASS_MAP
    THEN Outcome("Item type is not supported yet", FALSE, Null, <<>>, "idle")
    ELSE IF isUniqueBranch(item)
    THEN Outcome("", TRUE,
                 <<Query(item.name, item.baseType, <<>>, categoryOf(item), ilvlOf(item, include))>>,
                 <<>>, "delay")
    ELSE IF Len(statFiltersOf(asked)) = 0 /\ Len(asked) = 0
    THEN Outcome("No valid stats found to search for", FALSE, Null, asked, "idle")
    ELSE Outcome("", TRUE,
                 <<Query(Null, Null, statFiltersOf(asked), categoryOf(item),
                         ilvlOf(item, include))>>,
                 asked, "delay")

\* handleSearch up to its first await: the checks, parseItemText, the class
\* test and the query
handleSearch(text, loaded, include, wasLoading, resolving) ==
    LET item == parseItemText(text)
        asked == askedOf(item, resolving)
    IN
    IF trim(text) = <<>>
    THEN Outcome("Please paste an item first", wasLoading, Null, <<>>, "idle")
    ELSE IF ~loaded
    THEN Outcome("Item stats database is not ready yet. Please try again in a moment.",
                 wasLoading, Null, <<>>, "idle")
    ELSE IF item.itemClass # Null /\ item.itemClass[1] # <<>>
            /\ item.itemClass[1] \notin DOMAIN ITEM_CLASS_MAP
    THEN Outcome("Item type is not supported yet", FALSE, Null, <<>>, "idle")
    ELSE IF isUniqueBranch(item)
    THEN Outcome("", TRUE,
                 <<Query(item.name, item.baseType, <<>>, categoryOf(item), ilvlOf(item, include))>>,
                 <<>>, "delay")
    ELSE IF Len(statFiltersOf(asked)) = 0
    THEN Outcome("No valid stats found to search for", FALSE, Null, asked, "idle")
    ELSE Outcome("", TRUE,
                 <<Query(Null, Null, statFiltersOf(asked), categoryOf(item),
                         ilvlOf(item, include))>>,
                 asked, "delay")


(***************************************************************************)
(* SpecSearch: the component with a text pasted, and handleSearch run on   *)
(* it: the part up to the delay, the request, and the response.            *)
(***************************************************************************)
MaxStatLines == 3

MaxSearches == 1

RECURSIVE JoinLines(_)
JoinLines(lines) ==
    IF lines = <<>> THEN <<>>
    ELSE IF Len(lines) = 1 THEN lines[1]
    ELSE lines[1] \o <<"\n">> \o JoinLines(Tail(lines))

BootsLine == <<"I", "t", "e", "m", " ", "C", "l", "a", "s", "s", ":", " ", "B", "o", "o", "t", "s">>

RelicsLine == <<"I", "t", "e", "m", " ", "C", "l", "a", "s", "s", ":", " ", "R", "e", "l", "i", "c", "s">>

LevelLine == <<"I", "t", "e", "m", " ", "L", "e", "v", "e", "l", ":", " ", "7", "5">>

RareLine == <<"R", "a", "r", "i", "t", "y", ":", " ", "R", "a", "r", "e">>

UniqueLine == <<" ", " ", "R", "a", "r", "i", "t", "y", ":", " ", "U", "n", "i", "q", "u", "e", " ">>

NameLine == <<"W", "a", "n", "d", "e", "r", "l", "u", "s", "t">>

BaseLine == <<"W", "o", "o", "l", " ", "S", "h", "o", "e", "s">>

FlavourLine == <<"C", "o", "r", "r", "u", "p", "t", "e", "d">>

\* the lines of a pasted item before its stats
ItemHeaders ==
    {<<BootsLine, LevelLine, RareLine>>,
     <<LevelLine, RareLine>>,
     <<RelicsLine, LevelLine, RareLine>>,
     <<BootsLine, UniqueLine, NameLine, BaseLine, Separator, LevelLine>>,
     <<RelicsLine, UniqueLine, NameLine, BaseLine, LevelLine>>,
     <<BootsLine, RareLine, FlavourLine>>}

StatBlocks == UNION {[1..n -> {LifeLine, ArmourLine}] : n \in 0..MaxStatLines}

ItemTexts ==
    {<<>>, <<" ", "\n", " ">>}
    \cup {JoinLines(h \o <<Separator>> \o b \o <<Separator>>) : h \in ItemHeaders, b \in StatBlocks}

SearchResponses == {"network", "429", "failed", "badjson", "opened", "blocked", "noid"}

\* handleSearch is called
HandleSearch ==
    /\ searchPc = "idle"
    /\ Len(posts) < MaxSearches
    /\ \E resolving \in SUBSET DOMAIN StatIds :
        LET out == handleSearch(itemText, isStatsLoaded, includeItemLevel, loading, resolving) IN
        /\ error' = out.error
        /\ loading' = out.loading
        /\ query' = out.query
        /\ statCalls' = out.calls
        /\ searchPc' = out.next
    /\ UNCHANGED <<itemText, includeItemLevel, isStatsLoaded, posts, parsedItem>>
    /\ UNCHANGED <<impl, now>>
    /\ UNCHANGED limiter
    /\ UNCHANGED history
    /\ UNCHANGED handlers
    /\ UNCHANGED catalog
    /\ UNCHANGED lookup
    /\ UNCHANGED server

\* the delay is over: fetch('/api/poe/search', ...) with the query
PostSearch ==
    /\ searchPc = "delay"
    /\ posts' = Append(posts, query[1])
    /\ searchPc' = "fetching"
    /\ UNCHANGED <<itemText, error, loading, includeItemLevel, isStatsLoaded, query, statCalls,
                   parsedItem>>
    /\ UNCHANGED <<impl, now>>
    /\ UNCHANGED limiter
    /\ UNCHANGED history
    /\ UNCHANGED handlers
    /\ UNCHANGED catalog
    /\ UNCHANGED lookup
    /\ UNCHANGED server

\* the request settles: the rest of the try block, catch and finally
SearchResponse(kind) ==
    /\ searchPc = "fetching"
    /\ error' = CASE kind = "network" -> "Failed to fetch"
                  [] kind = "429" -> "Too many requests. Please wait a moment and try again."
                  [] kind = "failed" -> "Search failed"
                  [] kind = "badjson" -> "Unexpected token"
                  [] kind = "blocked" ->
                        "Popup was blocked. Please allow popups for this site and try again."
                  [] kind = "noid" -> "No search ID returned"
                  [] OTHER -> error
    /\ loading' = FALSE
    /\ searchPc' = "idle"
    /\ UNCHANGED <<itemText, includeItemLevel, isStatsLoaded, query, statCalls, posts,
                   parsedItem>>
    /\ UNCHANGED <<impl, now>>
    /\ UNCHANGED limiter
    /\ UNCHANGED history
    /\ UNCHANGED handlers
    /\ UNCHANGED catalog
    /\ UNCHANGED lookup
    /\ UNCHANGED server

InitSearch ==
    /\ impl = "ItemChecker"
    /\ InitIdle
    /\ InitCatalog
    /\ InitLookup
    /\ itemText \in ItemTexts
    /\ includeItemLevel \in BOOLEAN
    /\ isStatsLoaded \in BOOLEAN
    /\ error = IF isStatsLoaded THEN "" ELSE "Failed to load item stats database"
    /\ loading = FALSE
    /\ searchPc = "idle"
    /\ query = Null
    /\ statCalls = <<>>
    /\ posts = <<>>
    /\ parsedItem = Null
    /\ InitServer

NextSearch ==
    \/ HandleSearch
    \/ PostSearch
    \/ \E kind \in SearchResponses : SearchResponse(kind)

SpecSearch == InitSearch /\ [][NextSearch]_vars


(***************************************************************************)
(* The item parser and the query builder                                   *)
(***************************************************************************)
SixLineText == JoinLines(<<BootsLine, LevelLine, RareLine, Separator, LifeLine, Separator>>)

LifeFilter == [id |-> StatIds[LifeLine], min |-> Number(FALSE, 20, <<>>)]

\* C21: the six-line text 'Item Class: Boots / Item Level: 75 / Rarity: Rare /
\* -------- / +20 to maximum Life / --------' parses to itemClass Boots,
\* itemLevel 75 and stats ["+20 to maximum Life"], and when handleSearch runs
\* on it and that line resolves, the query has exactly one stat filter, with
\* the resolved id and value.min 20.
BootsTextSearched ==
    [][HandleSearch /\ itemText = SixLineText =>
          /\ parseItemText(itemText).itemClass = <<Boots>>
          /\ parseItemText(itemText).itemLevel = <<75>>
          /\ parseItemText(itemText).stats = <<LifeLine>>
          /\ (isStatsLoaded /\ statCalls' = <<[stat |-> LifeLine, id |-> StatIds[LifeLine]]>>
                => /\ query' # Null
                   /\ query'[1].filters = <<LifeFilter>>)]_vars

C21_Witness ==
    /\ itemText = SixLineText
    /\ searchPc = "fetching"
    /\ Len(posts) = 1
    /\ posts[1].filters = <<LifeFilter>>


\* C22: for a parsed item with rarity Unique and both name and base type
\* present, handleSearch calls findStatId for none of the stat lines, and the
\* query it builds carries that name and that type and an empty filter list
\* in its stat group.
UniqueByNameAndType ==
    [][HandleSearch /\ isUniqueBranch(parseItemText(itemText)) =>
          /\ statCalls' = <<>>
          /\ query' # Null =>
                /\ query'[1].name = parseItemText(itemText).name
                /\ query'[1].type = parseItemText(itemText).baseType
                /\ query'[1].filters = <<>>]_vars

C22_Witness ==
    /\ Len(posts) = 1
    /\ posts[1].name = <<NameLine>>
    /\ posts[1].type = <<BaseLine>>
    /\ posts[1].filters = <<>>
    /\ statCalls = <<>>
    /\ Len(parseItemText(itemText).stats) >= 2


\* the place in the findStatId calls of the k-th one that resolved
ResolvedAt(asked, k) ==
    CHOOSE i \in 1..Len(asked) :
        /\ asked[i].id # ""
        /\ Cardinality({j \in 1..(i - 1) : asked[j].id # ""}) = k - 1

\* handleSearch gets as far as the stat lines of a non-unique item
ReachesStats ==
    /\ trim(itemText) # <<>>
    /\ isStatsLoaded
    /\ ~isUniqueBranch(parseItemText(itemText))
    /\ \/ parseItemText(itemText).itemClass = Null
       \/ parseItemText(itemText).itemClass[1] \in DOMAIN ITEM_CLASS_MAP

\* C23: for a non-unique item findStatId is asked once per stat line, in
\* order, and when at least one line resolves the query is built and its
\* single AND group holds exactly one filter per resolved line, in the order
\* of the lines, and none for an unresolved line.
OneFilterPerResolvedLine ==
    [][HandleSearch /\ ReachesStats =>
          /\ Len(statCalls') = Len(parseItemText(itemText).stats)
          /\ \A i \in 1..Len(statCalls') : statCalls'[i].stat = parseItemText(itemText).stats[i]
          /\ (\E i \in 1..Len(statCalls') : statCalls'[i].id # "") =>
                /\ query' # Null
                /\ Len(query'[1].filters)
                     = Cardinality({i \in 1..Len(statCalls') : statCalls'[i].id # ""})
                /\ \A k \in 1..Len(query'[1].filters) :
                      query'[1].filters[k].id = statCalls'[ResolvedAt(statCalls', k)].id]_vars

\* two lines resolved and one did not: a query with exactly two filters is sent
C23_Witness ==
    /\ Len(posts) = 1
    /\ Len(statCalls) = 3
    /\ Cardinality({i \in 1..3 : statCalls[i].id = ""}) = 1
    /\ Len(posts[1].filters) = 2


\* the item class of the pasted text is one handleSearch accepts
ClassAccepted ==
    \/ parseItemText(itemText).itemClass = Null
    \/ parseItemText(itemText).itemClass[1] \in DOMAIN ITEM_CLASS_MAP

\* C24: a request goes to the search endpoint only if the item class is
\* absent or in the class mapping and the item is on the unique branch or has
\* at least one resolved stat filter; an unsupported class is rejected before
\* findStatId is called for any line; a non-unique item none of whose stat
\* lines resolves ends with 'No valid stats found to search for' and no
\* request.
RequestOnlyForSearchableItem ==
    [][/\ PostSearch =>
            /\ ClassAccepted
            /\ \/ isUniqueBranch(parseItemText(itemText))
               \/ \E i \in 1..Len(statCalls) : statCalls[i].id # ""
       /\ HandleSearch /\ trim(itemText) # <<>> /\ isStatsLoaded /\ ~ClassAccepted =>
            /\ statCalls' = <<>>
            /\ error' = "Item type is not supported yet"
            /\ searchPc' = "idle"
            /\ query' = Null
       /\ HandleSearch /\ ReachesStats /\ (\A i \in 1..Len(statCalls') : statCalls'[i].id = "") =>
            /\ error' = "No valid stats found to search for"
            /\ searchPc' = "idle"
            /\ query' = Null]_vars

\* every stat line was asked for and none resolved: the error, and nothing sent
C24_Witness ==
    /\ Len(statCalls) >= 2
    /\ \A i \in 1..Len(statCalls) : statCalls[i].id = ""
    /\ error = "No valid stats found to search for"
    /\ searchPc = "idle"
    /\ posts = <<>>
    /\ parsedItem = Null


(***************************************************************************)
(* The answers of the POST search handlers                                 *)
(***************************************************************************)
\* the timeToWait the limiter computes for a request arriving now
LimiterWait ==
    IF impl = "RL" THEN checkLimit_rl(tiers, now).timeToWait
    ELSE CheckOf(tiers, now).timeToWait

\* C25: when the limiter denies a request, the POST search handler answers
\* 429 with retryAfter equal to the timeToWait the limiter computed, and the
\* request ends without a call of the upstream search API.
DeniedWithLimiterWait ==
    [][\A r \in Requests :
          (PostStart5(r) \/ PostStartServer(r)) /\ ~last'.allowed =>
              /\ reply'.status = 429
              /\ reply'.retryAfter = <<LimiterWait>>
              /\ ~reply'.forwarded
              /\ reply'.upstream = Null
              /\ pc'[r] = "done"]_vars

C25_Witness ==
    /\ last.op = "check"
    /\ ~last.allowed
    /\ last.timeToWait > 0
    /\ reply.status = 429
    /\ reply.retryAfter = <<last.timeToWait>>
    /\ \E r \in Requests : pc[r] = "search"


\* request r's handler runs from its upstream call to its return in this step
Answers(r) == pc[r] = "search" /\ pc'[r] = "done"

\* C26: in the handler built on searchPoETrades, an upstream 429 is answered
\* with 429, a retryAfter value and a call of setRestriction, and an upstream
\* 403 with 403; neither is answered with 500.
UpstreamRefusalPassedOn ==
    [][\A r \in Requests :
          Answers(r) /\ impl # "RL" =>
              /\ reply'.upstream = <<429>> =>
                    /\ reply'.status = 429
                    /\ reply'.retryAfter # Null
                    /\ reply'.restricted
              /\ reply'.upstream = <<403>> => reply'.status = 403]_vars


\* C27: whenever the upstream search endpoint returned an HTTP response to
\* the handler, with any status and any body, the handler calls
\* updateFromHeaders with that response's headers before it returns.
HeadersAlwaysReconciled ==
    [][\A r \in Requests :
          Answers(r) /\ reply'.upstream # Null => reply'.reconciled]_vars


\* the statuses a handler answers with: the upstream result, or a JSON error
\* body with one of these
ErrorStatuses == {400, 403, 429, 500}

\* C28: every run of the POST search handler ends by returning a response,
\* the upstream result or a JSON error body with a status code, whatever the
\* limiter decides, the body parses to and the upstream does; no exception
\* leaves the handler.
AlwaysAnswers ==
    [][\A r \in Requests :
          pc[r] # "done" /\ pc'[r] = "done" =>
              /\ ~reply'.thrown
              /\ \/ reply'.status = 200 /\ reply'.data # Null
                 \/ reply'.status \in ErrorStatuses /\ reply'.data = Null]_vars

\* the upstream could not be reached, and every handler has returned
C28_Witness ==
    /\ reply.status = 500
    /\ reply.forwarded
    /\ reply.upstream = Null
    /\ ~reply.thrown
    /\ \A r \in Answered : pc[r] = "done"


(***************************************************************************)
(* The GET handlers of routes/api/poe/stats/+server.ts: the first variant  *)
(* (readCache, fetch, writeCache; impl "GetFirst") and the second          *)
(* (statsCache, statsApi; impl "GetSecond").  disk.file is the cache file, *)
(* disk.pending the write a handler started without awaiting it.           *)
(***************************************************************************)
\* 24 * 60 * 60 * 1000
CACHE_DURATION == 86400000

HalfDay == CACHE_DURATION \div 2

MaxNowGet == 172800000

\* the cache file: missing, not JSON ("corrupt"), or {data, lastUpdated};
\* data "" is a falsy data field
File(kind, data, lastUpdated) == [kind |-> kind, data |-> data, lastUpdated |-> lastUpdated]

NoFile == File("missing", "", 0)

Catalogs == {"catalog 1", "catalog 2"}

\* what the upstream stats endpoint does: no connection, a non-success
\* status, a body that is not JSON, JSON without a result array, a catalog
Refresh(kind, data) == [kind |-> kind, data |-> data]

RefreshFailures == {Refresh(k, "") : k \in {"network", "status", "badjson"}}

Refreshes ==
    RefreshFailures \cup {Refresh("shape", "no result")}
    \cup {Refresh("catalog", c) : c \in Catalogs}

\* what a handler run gives: its response, and the data it starts writing
Served(status, data, refreshed, write) ==
    [reply |-> Reply(status, Null, data, refreshed, Null, FALSE, FALSE, FALSE), write |-> write]

\* readCache of the first variant: the parsed file, Null when reading or
\* parsing threw
readCache(file) == IF file.kind = "snapshot" THEN <<file>> ELSE Null

\* GET of the first variant, lines 60-127
GET_first(file, n, refresh) ==
    LET cached == readCache(file) IN
    IF cached # Null /\ cached[1].data # "" /\ n - cached[1].lastUpdated < CACHE_DURATION
    THEN Served(200, <<cached[1].data>>, FALSE, Null)
    ELSE IF refresh.kind = "network"
    THEN Served(500, Null, TRUE, Null)          \* fetch rejects: the catch block
    ELSE IF refresh.kind = "status"
    THEN IF cached # Null /\ cached[1].data # ""
         THEN Served(200, <<cached[1].data>>, TRUE, Null)
         ELSE Served(500, Null, TRUE, Null)
    ELSE IF refresh.kind = "badjson"
    THEN Served(500, Null, TRUE, Null)          \* response.json() rejects
    ELSE Served(200, <<refresh.data>>, TRUE, <<refresh.data>>)

\* StatsCache.read: {data, isExpired}, Null when the file cannot be read or
\* parsed
read_cache(file, n) ==
    IF file.kind = "snapshot"
    THEN <<[data |-> file.data, isExpired |-> n - file.lastUpdated > CACHE_DURATION]>>
    ELSE Null

\* StatsApi.fetchStats: whether it returns the data or throws
fetchStats_api(refresh) == refresh.kind = "catalog"

\* GET of the second variant, lines 144-167
GET_second(file, n, refresh) ==
    LET cacheResult == read_cache(file, n) IN
    IF cacheResult # Null /\ ~cacheResult[1].isExpired
    THEN Served(200, <<cacheResult[1].data>>, FALSE, Null)
    ELSE IF ~fetchStats_api(refresh)
    THEN IF cacheResult # Null /\ cacheResult[1].data # ""
         THEN Served(200, <<cacheResult[1].data>>, TRUE, Null)
         ELSE Served(500, Null, TRUE, Null)
    ELSE Served(200, <<refresh.data>>, TRUE, <<refresh.data>>)

\* a GET request is handled; the write it starts is left pending
StatsGet(refresh) ==
    /\ disk.pending = Null
    /\ LET served == IF impl = "GetFirst" THEN GET_first(disk.file, now, refresh)
                     ELSE GET_second(disk.file, now, refresh)
       IN
        /\ reply' = served.reply
        /\ disk' = [disk EXCEPT !.pending =
                       IF served.write = Null THEN Null
                       ELSE <<File("snapshot", served.write[1], now)>>]
    /\ UNCHANGED <<impl, now>>
    /\ UNCHANGED limiter
    /\ UNCHANGED history
    /\ UNCHANGED handlers
    /\ UNCHANGED catalog
    /\ UNCHANGED lookup
    /\ UNCHANGED component

\* writeCache / StatsCache.write finishes: the file is replaced, or the
\* write failed and is only logged
WriteCache(written) ==
    /\ disk.pending # Null
    /\ disk' = [file |-> IF written THEN disk.pending[1] ELSE disk.file, pending |-> Null]
    /\ UNCHANGED reply
    /\ UNCHANGED <<impl, now>>
    /\ UNCHANGED limiter
    /\ UNCHANGED history
    /\ UNCHANGED handlers
    /\ UNCHANGED catalog
    /\ UNCHANGED lookup
    /\ UNCHANGED component

GetTick == Tick(HalfDay, MaxNowGet)

InitGet ==
    /\ impl \in {"GetFirst", "GetSecond"}
    /\ now = 0
    /\ tiers = <<>>
    /\ last = Result("new", TRUE, 0, 0)
    /\ restrictEnd = 0
    /\ denial = Null
    /\ periods = Null
    /\ remote = Null
    /\ twin = Null
    /\ until = <<>>
    /\ calls = [inside |-> 0, after |-> 0]
    /\ pc = [r \in Requests |-> "idle"]
    /\ granted = <<>>
    /\ base = <<>>
    /\ oneSlot = [r \in Requests |-> FALSE]
    /\ InitCatalog
    /\ InitLookup
    /\ InitComponent
    /\ reply = NoReply
    /\ disk \in {[file |-> f, pending |-> Null] :
                   f \in {NoFile, File("corrupt", "", 0), File("snapshot", "", 0),
                          File("snapshot", "catalog 0", 0)}}

NextGet ==
    \/ \E refresh \in Refreshes : StatsGet(refresh)
    \/ \E written \in BOOLEAN : WriteCache(written)
    \/ GetTick

SpecGet == InitGet /\ [][NextGet]_vars

\* a catalog can be read from the cache file
CacheReadable == disk.file.kind = "snapshot" /\ disk.file.data # ""

\* C29: when a cached catalog can be read from disk, expired or not, and the
\* refresh from the upstream stats endpoint fails (connection error,
\* non-success status, unparseable body), the stats GET handler answers with
\* the cached data and a success status, not with 500.
StaleCacheServedOnFailure ==
    [][\A refresh \in RefreshFailures :
          StatsGet(refresh) /\ CacheReadable =>
              /\ reply'.status = 200
              /\ reply'.data = <<disk.file.data>>]_vars


(***************************************************************************)
(* Positions of the rate-limit headers and local tiers (part_009)          *)
(***************************************************************************)
\* the tuple at comma-separated position i of a list of tuples, Absent
\* beyond its end
TupleAt(tuples, i) == IF i <= Len(tuples) THEN tuples[i] ELSE Absent

\* the tiers when the rule and state tuples at position i are applied to
\* tier i and a position that does not parse leaves its tier alone
AppliedInPlace(ts, n, x) ==
    [i \in 1..Len(ts) |->
        LET tu == parseTuple_p9(TupleAt(x.ruleTuples, i), TupleAt(x.stateTuples, i)) IN
        IF tu = <<>> THEN ts[i] ELSE tierFromTuple_p9(tu, n)]

\* C30: updateFromHeaders of part_009 applies the rule tuple and the state
\* tuple found at comma-separated position i of their headers to local tier
\* i and to no other tier, also when a position of either header is empty.
TuplesAppliedInPlace ==
    [][\A x \in LimiterInputs :
          /\ impl = "P9"
          /\ x.raw.rules = <<"ip">>
          /\ Len(x.ruleTuples) <= Len(tiers)
          /\ Len(x.stateTuples) <= Len(tiers)
          /\ UpdateFromHeaders(x)
          => tiers' = getStatus_p9(AppliedInPlace(tiers, now, x), now)]_vars

(***************************************************************************)
(* SpecWait: the service of rate-limit.service.ts or of part_009 with a    *)
(* caller that retries checkAndIncrementLimit.  denial remembers the       *)
(* latest denied check, periods what setRestriction found; a call of       *)
(* updateFromHeaders forgets both.                                         *)
(***************************************************************************)
MaxNowWait == 3000

RestrictionSeconds == 1..(MaxRestrictionSeconds + 1)

\* the wait one tier contributes to a check at time n: <<>> when it does
\* not block (rate-limit.service.ts lines 63-68, part_009 lines 104-116)
TierWaitOf(t, n) ==
    IF impl = "Svc"
    THEN IF t.hits >= t.max THEN <<Ceil(t.period - (n - t.lastUpdated), 1000)>> ELSE <<>>
    ELSE tierWait_p9(t, n)

\* the first tier whose wait is the timeToWait w a denied check returned
Determining(ts, n, w) == MinOf({i \in DOMAIN ts : TierWaitOf(ts[i], n) = <<w>>})

Denial(at, wait, tier) == [at |-> at, wait |-> wait, tier |-> tier]

\* the caller tries again
Retry ==
    /\ CheckCall
    /\ denial' = IF last'.allowed THEN Null
                 ELSE <<Denial(now, last'.timeToWait,
                               Determining(tiers', now, last'.timeToWait))>>
    /\ UNCHANGED calls

Told(x) ==
    /\ HeadersCall(x)
    /\ denial' = Null
    /\ periods' = Null

Restricted(seconds) ==
    /\ RestrictCall(seconds)
    /\ denial' = Null
    /\ periods' = <<[end |-> now + seconds * 1000,
                     of |-> [i \in DOMAIN tiers |-> tiers[i].period]]>>

WaitTick == \E d \in TimeSteps : Tick(d, MaxNowWait)

\* the responses the service is told of: no rate-limit headers, three tiers,
\* and three tiers with the first one used up
WaitInputs ==
    { HeaderInput(<<>>, <<>>, NoHeaders),
      IpInput(BaseRules, BaseStates),
      IpInput(BaseRules, [BaseStates EXCEPT ![1] = Tuple3(9, 1, 0)]) }

InitWait == InitLimiter

NextWait ==
    \/ Retry
    \/ \E x \in WaitInputs : Told(x)
    \/ \E s \in RestrictionSeconds : Restricted(s)
    \/ GetStatus
    \/ WaitTick

SpecWait == InitWait /\ [][NextWait]_vars

\* the denial's wait is over
WaitOver == denial # Null /\ now >= denial[1].at + denial[1].wait * 1000

\* C31: a check that runs once the timeToWait of a denied check has passed,
\* with no updateFromHeaders or setRestriction since the denial, finds the
\* tier that determined the wait no longer blocking
WaitedTierOpen ==
    [][Retry /\ WaitOver => ~Blocking(StatusOf(tiers, now)[denial[1].tier], now)]_vars

\* the restriction setRestriction set is over
RestrictionOver == periods # Null /\ now >= periods[1].end

\* C40: in rate-limit.service.ts, once the restriction of setRestriction has
\* elapsed with no updateFromHeaders in between, every tier's period is the
\* one it had before setRestriction was called
PeriodsRestored ==
    impl = "Svc" /\ RestrictionOver
        => \A i \in DOMAIN tiers : tiers[i].period = periods[1].of[i]

\* a tier's window is still running at time n
WindowRunning(t, n) == n - t.lastUpdated < t.period

\* C39: in rateLimit.ts, admitting a request changes lastUpdated only of a
\* tier whose window had elapsed; a tier whose window is still running
\* keeps its window start
RunningWindowKeepsStart ==
    [][IncrementLimits =>
          \A i \in DOMAIN tiers :
              WindowRunning(tiers[i], now) => tiers'[i].lastUpdated = tiers[i].lastUpdated]_vars

(***************************************************************************)
(* SpecRetry: the same two services with a caller that keeps retrying      *)
(* while time keeps advancing.  The clock is read at a few instants, the   *)
(* last one later than any window or restriction that began before         *)
(* Horizon; updateFromHeaders and setRestriction are called up to Horizon  *)
(* only.                                                                   *)
(***************************************************************************)
MaxNowRetry == 302000

Horizon == 2000

Readings == {0, 1000, Horizon, 10000, MaxNowRetry}

\* a response whose rule header gives the first tier a max of 0
ZeroMaxInput == IpInput([BaseRules EXCEPT ![1] = Tuple3(0, 1, 60)], BaseStates)

RetryInputs == WaitInputs \cup {ZeroMaxInput}

ToldEarly(x) == now <= Horizon /\ Told(x)

RestrictedEarly(seconds) == now <= Horizon /\ Restricted(seconds)

\* the clock is read next at a later instant
Later == \E t \in Readings : t > now /\ Tick(t - now, MaxNowRetry)

InitRetry == InitLimiter

NextRetry ==
    \/ Retry
    \/ \E x \in RetryInputs : ToldEarly(x)
    \/ \E s \in RestrictionSeconds : RestrictedEarly(s)
    \/ GetStatus
    \/ Later

\* time keeps advancing and the caller keeps retrying
SpecRetry == InitRetry /\ [][NextRetry]_vars /\ WF_vars(Later) /\ WF_vars(Retry)

DeniedEarly == last.op = "check" /\ ~last.allowed /\ now <= Horizon

Allowed == last.op = "check" /\ last.allowed

\* C32: a caller that was denied and keeps retrying while time advances,
\* with no further updateFromHeaders or setRestriction, is eventually allowed
EventuallyAllowed == DeniedEarly ~> Allowed

\* the same, as long as no tier has a max of 0
EventuallyAllowedIfPositive ==
    DeniedEarly ~> (Allowed \/ \E i \in DOMAIN tiers : tiers[i].max = 0)

(***************************************************************************)
(* SpecTwin: the RateLimitService of rate-limit.service.ts (tiers, last)   *)
(* and the one of rateLimit.ts (twin) side by side, both from the default  *)
(* tiers, given the same admissions, the same response headers and the     *)
(* same clock.                                                             *)
(***************************************************************************)
MaxNowTwin == 10000

TwinReadings == {0, MaxNowTwin \div 2, MaxNowTwin}

Twin(ts, allowed, timeToWait) == [tiers |-> ts, allowed |-> allowed, timeToWait |-> timeToWait]

\* checkLimit() immediately followed, when it allows, by incrementLimits()
checkThenIncrement_rl(ts, n) ==
    LET c == checkLimit_rl(ts, n) IN
    Twin(IF c.allowed THEN incrementLimits_rl(c.tiers, n) ELSE c.tiers,
         c.allowed, c.timeToWait)

\* a request asks both services for admission
Admit ==
    /\ LET r == checkAndIncrementLimit_svc(tiers, now) IN
        /\ tiers' = r.tiers
        /\ last' = Result("check", r.allowed, r.timeToWait, 0)
    /\ twin' = checkThenIncrement_rl(twin.tiers, now)
    /\ UNCHANGED catalog
    /\ UNCHANGED lookup
    /\ UNCHANGED component
    /\ UNCHANGED server
    /\ UNCHANGED <<impl, now, restrictEnd, until, calls, denial, periods, remote>>
    /\ UNCHANGED handlers

\* both services are given the headers of one response
Reconcile(x) ==
    /\ tiers' = updateFromHeaders_svc(tiers, now, x.svc)
    /\ last' = Result("headers", TRUE, 0, Len(x.stateTuples))
    /\ twin' = [twin EXCEPT !.tiers = updateFromHeaders_rl(twin.tiers, now, x.rl)]
    /\ UNCHANGED catalog
    /\ UNCHANGED lookup
    /\ UNCHANGED component
    /\ UNCHANGED server
    /\ UNCHANGED <<impl, now, restrictEnd, until, calls, denial, periods, remote>>
    /\ UNCHANGED handlers

TwinLater == \E t \in TwinReadings : t > now /\ Tick(t - now, MaxNowTwin)

InitTwin ==
    /\ impl = "Svc"
    /\ now = 0
    /\ tiers = createDefaultTiers(0)
    /\ twin = Twin(createDefaultTiers_rl(0), TRUE, 0)
    /\ last = Result("new", TRUE, 0, 0)
    /\ restrictEnd = 0
    /\ denial = Null
    /\ periods = Null
    /\ remote = Null
    /\ until = <<>>
    /\ calls = [inside |-> 0, after |-> 0]
    /\ pc = [r \in Requests |-> "idle"]
    /\ granted = [i \in DOMAIN tiers |-> 0]
    /\ base = [i \in DOMAIN tiers |-> tiers[i].hits]
    /\ oneSlot = [r \in Requests |-> FALSE]
    /\ InitCatalog
    /\ InitLookup
    /\ InitComponent
    /\ InitServer

NextTwin ==
    \/ Admit
    \/ \E x \in WaitInputs : Reconcile(x)
    \/ TwinLater

SpecTwin == InitTwin /\ [][NextTwin]_vars

\* C33: on every sequence of admissions, header reconciliations and time
\* advances, checkLimit followed by incrementLimits of rateLimit.ts decides
\* as checkAndIncrementLimit of rate-limit.service.ts does, with the same
\* timeToWait
SameDecision ==
    [][Admit => last'.allowed = twin'.allowed /\ last'.timeToWait = twin'.timeToWait]_vars

\* the same, as long as no response headers have been applied
SameDecisionWithoutHeaders ==
    [][Admit /\ (\A i \in DOMAIN tiers : tiers[i].max = twin.tiers[i].max
                                       /\ tiers[i].period = twin.tiers[i].period)
        => last'.allowed = twin'.allowed /\ last'.timeToWait = twin'.timeToWait]_vars

\* the exact-match pass of stats.ts on the selected pool: the id the linear
\* scan finds, "" for none
ScanMatch == findExactMatch_stc(normalizeStatText_stc(statText), SelectedPool)

\* the exact-match pass of stat-utils.ts on the selected pool: the entry
\* the precomputed map holds, Null for none
MapMatch == mapGet_su(SelectedPool, normalizeStatText_su(statText))

\* C34: when the normalized input equals the normalized text of an entry of
\* the selected pool, the linear scan of stats.ts and the map lookup of
\* stat-utils.ts return the same id
ScanAndMapAgree ==
    [][FindStatId /\ cache # Null /\ ScanMatch # "" /\ MapMatch # Null
        => MapMatch[1].id = ScanMatch]_vars

\* the pool an input with the implicit marker is to be matched against: the
\* entries of category Implicit when there are any, else the whole list
MarkedPool == IF Len(ImplicitStats) > 0 THEN ImplicitStats ELSE AllStats

\* C35: searchStats of stats.ts matches an input with the implicit marker
\* against the implicit entries when there are any and against the whole
\* list when there are none: an entry of that pool whose normalized text
\* equals the normalized term is returned as an exact match
MarkedInputFallsBack ==
    [][FindStatId /\ impl = "STC" /\ cache # Null
         /\ Contains(toLowerCase(statText), ImplicitMarker)
        => LET term == analyzeSearchContext_stc(statText).normalizedTerm
               exact == findExactMatch_stc(term, MarkedPool)
           IN  exact # "" => resolved' = Found(exact, "exact")]_vars

\* the same for catalogs that have entries of category Implicit
MarkedInputOnImplicitPool ==
    [][FindStatId /\ impl = "STC" /\ cache # Null /\ Len(ImplicitStats) > 0
         /\ Contains(toLowerCase(statText), ImplicitMarker)
        => LET term == analyzeSearchContext_stc(statText).normalizedTerm
               exact == findExactMatch_stc(term, ImplicitStats)
           IN  exact # "" => resolved' = Found(exact, "exact")]_vars

\* the stored promise is that of a request in flight, or of one that has
\* just settled and whose finally block is about to run
HandleInFlight ==
    fetchPromise # NoPromise => Pending(fetchPromise) \/ CleanupDue(fetchPromise)

\* the latest request failed, its handlers have run, no snapshot exists and
\* the retry interval since its start has passed
RetryDue ==
    /\ Len(fetches) > 0
    /\ fetches[Len(fetches)].status = "rejected"
    /\ ~CleanupDue(Len(fetches))
    /\ cache = Null
    /\ now - fetches[Len(fetches)].start >= CACHE_RETRY_INTERVAL

\* C36: the stored promise is non-null only while its request is in flight
\* (or has just settled), and a fetchStats call made 60 s or more after the
\* start of a request that failed sends a new request
HandleClearedOnSettle ==
    [][/\ HandleInFlight'
       /\ FetchStats /\ RetryDue
            => /\ Len(fetches') = Len(fetches) + 1
               /\ call'.kind = "promise" /\ call'.promise = Len(fetches')
               /\ fetches'[Len(fetches')].status = "pending"]_vars

C36_Witness ==
    /\ Len(fetches) = 2
    /\ fetches[1].status = "rejected"
    /\ Pending(2)
    /\ fetches[2].start - fetches[1].start >= CACHE_RETRY_INTERVAL
    /\ cache = Null
    /\ fetchPromise = 2
    /\ call.op = "fetchStats" /\ call.kind = "promise" /\ call.promise = 2

(***************************************************************************)
(* SpecParse: parseItemText on texts whose lines come in any order.        *)
(***************************************************************************)
MaxItemLines == 4

BadLevelLine == <<"I", "t", "e", "m", " ", "L", "e", "v", "e", "l", ":", " ", "x">>

ParseLines == {LevelLine, BadLevelLine, Separator, LifeLine, FlavourLine, RareLine}

ParseTexts == {JoinLines(ls) : ls \in UNION {[1..n -> ParseLines] : n \in 0..MaxItemLines}}

\* parseItemText is applied to the pasted text
ParseItemText ==
    /\ parsedItem = Null
    /\ parsedItem' = <<parseItemText(itemText)>>
    /\ UNCHANGED <<itemText, error, loading, includeItemLevel, isStatsLoaded, searchPc, query,
                   statCalls, posts>>
    /\ UNCHANGED <<impl, now>>
    /\ UNCHANGED limiter
    /\ UNCHANGED history
    /\ UNCHANGED handlers
    /\ UNCHANGED catalog
    /\ UNCHANGED lookup
    /\ UNCHANGED server

InitParse ==
    /\ impl = "ItemChecker"
    /\ InitIdle
    /\ InitCatalog
    /\ InitLookup
    /\ InitServer
    /\ itemText \in ParseTexts
    /\ includeItemLevel = FALSE
    /\ isStatsLoaded = TRUE
    /\ error = ""
    /\ loading = FALSE
    /\ searchPc = "idle"
    /\ query = Null
    /\ statCalls = <<>>
    /\ posts = <<>>
    /\ parsedItem = Null

NextParse == ParseItemText

SpecParse == InitParse /\ [][NextParse]_vars

IsHeaderLine(line) ==
    \/ StartsWith(line, ItemClassPrefix)
    \/ StartsWith(line, ItemLevelPrefix)
    \/ StartsWith(line, RarityPrefix)

\* an Item Level line with an integer
IsLevelLine(line) == StartsWith(line, ItemLevelPrefix) /\ itemLevelMatch(line) # <<>>

\* a separator: a line with a run of eight dashes that is not a header
IsSeparatorLine(line) == Contains(line, Separator) /\ ~IsHeaderLine(line)

\* line i comes after an Item Level line with an integer and a separator
\* after that line, is no separator and no header, and holds a digit or a
\* keyword
Collectable(lines, i) ==
    /\ \E j \in 1..(i - 1) :
        /\ IsLevelLine(lines[j])
        /\ \E k \in (j + 1)..(i - 1) : IsSeparatorLine(lines[k])
    /\ ~Contains(lines[i], Separator)
    /\ ~IsHeaderLine(lines[i])
    /\ isStatLine(lines[i])

CollectableLines(lines) ==
    LET at == {i \in 1..Len(lines) : Collectable(lines, i)}
        nth(k) == CHOOSE i \in at : Cardinality({j \in at : j < i}) = k - 1
    IN  [k \in 1..Cardinality(at) |-> lines[nth(k)]]

\* C37: the stats parseItemText returns are the lines that come after an
\* Item Level line with an integer and a separator after it, are no
\* separator and no header, and hold a digit or a keyword; a text with no
\* Item Level line with an integer yields no stats
StatsOnlyAfterLevelAndSeparator ==
    parsedItem # Null =>
        LET lines == itemLines(itemText) IN
        /\ parsedItem[1].stats = CollectableLines(lines)
        /\ (\A j \in 1..Len(lines) : ~IsLevelLine(lines[j])) => parsedItem[1].stats = <<>>

C37_Witness ==
    /\ parsedItem # Null
    /\ itemLines(itemText) = <<LevelLine, LifeLine, Separator, LifeLine>>
    /\ parsedItem[1].stats = <<LifeLine>>

(***************************************************************************)
(* SpecRace: the part_005 handler with rate-limit.service.ts in front of   *)
(* an upstream API that keeps the windows the service starts from: it      *)
(* counts a request when the request reaches it, in a window that begins   *)
(* with the first request after the previous one has run out, and puts     *)
(* the counts of that moment on the response.                              *)
(***************************************************************************)
MaxNowRace == 10000

MaxCounted == 6

RaceSteps == {MaxNowRace}

NumRacers == 2

Racers == 1..NumRacers

Remote(ts, sent) == <<[tiers |-> ts, sent |-> sent]>>

\* the upstream counts one more request at time n
Counted(ts, n) ==
    [i \in DOMAIN ts |->
        IF n - ts[i].lastUpdated >= ts[i].period
        THEN [ts[i] EXCEPT !.hits = 1, !.lastUpdated = n]
        ELSE [ts[i] EXCEPT !.hits = @ + 1]]

\* the response to request r: the X-Rate-Limit-Ip and -State headers carry
\* the counts the upstream had when r reached it; a request beyond a
\* tier's maximum is answered with 429
RemoteAnswer(r) ==
    LET ts == remote[1].tiers
        hits == remote[1].sent[r]
        rules == [i \in DOMAIN ts |-> Tuple3(ts[i].max, ts[i].period \div 1000, 0)]
        states == [i \in DOMAIN ts |-> Tuple3(hits[i], ts[i].period \div 1000, 0)]
        over == \E i \in DOMAIN ts : hits[i] > ts[i].max
    IN  IF over THEN Upstream("response", 429, "error", IpInput(rules, states), Absent)
        ELSE Upstream("response", 200, "result", IpInput(rules, states), Absent)

\* part_005, lines 23-35: the body was read; the request is forwarded and
\* reaches the upstream, or the body was no JSON
Forward(r) ==
    /\ impl = "Svc"
    /\ remote # Null
    /\ pc[r] = "body"
    /\ \A i \in DOMAIN remote[1].tiers : remote[1].tiers[i].hits < MaxCounted
    /\ \E ok \in BOOLEAN :
          /\ pc' = [pc EXCEPT ![r] = IF ok THEN "search" ELSE "done"]
          /\ reply' = IF ok THEN reply
                      ELSE Reply(400, Null, Null, FALSE, Null, FALSE, FALSE, FALSE)
          /\ remote' = IF ok
                       THEN LET ts == Counted(remote[1].tiers, now) IN
                            Remote(ts, [remote[1].sent EXCEPT
                                           ![r] = [i \in DOMAIN ts |-> ts[i].hits]])
                       ELSE remote
    /\ UNCHANGED disk
    /\ UNCHANGED catalog
    /\ UNCHANGED lookup
    /\ UNCHANGED component
    /\ UNCHANGED <<impl, now, tiers, last, granted, base, oneSlot>>
    /\ UNCHANGED <<restrictEnd, until, calls, denial, periods, twin>>

\* part_005, lines 48-55: the upstream's response arrived and
\* searchPoETrades returned it
Delivered(r) ==
    /\ remote # Null
    /\ pc[r] = "search"
    /\ ResponseCall5(r, RemoteAnswer(r))
    /\ remote' = Remote(remote[1].tiers, [remote[1].sent EXCEPT ![r] = <<>>])

\* part_005, lines 35-46: no connection, or the upstream's response was
\* one that searchPoETrades throws on
Failed(r) ==
    /\ remote # Null
    /\ pc[r] = "search"
    /\ \E u \in {Upstream("network", 0, "none", HeaderInput(<<>>, <<>>, NoHeaders), Absent),
                 RemoteAnswer(r)} : SearchErrorCall5(r, u)
    /\ remote' = Remote(remote[1].tiers, [remote[1].sent EXCEPT ![r] = <<>>])

InitRace ==
    /\ impl = "Svc"
    /\ now = 0
    /\ tiers = createDefaultTiers(0)
    /\ remote = Remote(createDefaultTiers(0), [r \in Requests |-> <<>>])
    /\ twin = Null
    /\ last = Result("new", TRUE, 0, 0)
    /\ restrictEnd = 0
    /\ denial = Null
    /\ periods = Null
    /\ until = <<>>
    /\ calls = [inside |-> 0, after |-> 0]
    /\ pc = [r \in Requests |-> "idle"]
    /\ granted = [i \in DOMAIN tiers |-> 0]
    /\ base = [i \in DOMAIN tiers |-> tiers[i].hits]
    /\ oneSlot = [r \in Requests |-> FALSE]
    /\ InitCatalog
    /\ InitLookup
    /\ InitComponent
    /\ InitServer

NextRace ==
    \/ \E r \in Racers : PostStart5(r)
    \/ \E r \in Racers : Forward(r)
    \/ \E r \in Racers : Delivered(r)
    \/ \E r \in Racers : Failed(r)
    \/ \E r \in Racers : NewRequest(r)
    \/ \E d \in RaceSteps : Tick(d, MaxNowRace)

SpecRace == InitRace /\ [][NextRace]_vars

\* C38: the requests the handler forwards within one window of the upstream
\* never number more than the tier's max, whatever the order in which
\* requests are admitted, reach the upstream and are answered
ForwardsWithinMax ==
    remote # Null =>
        \A i \in DOMAIN tiers : remote[1].tiers[i].hits <= tiers[i].max

=============================================================================
